---- MODULE Spec2Model ----
(***************************************************************************)
(* A model of blockstream's ABI decoder (src/blockchain/decoder.rs and its *)
(* predecessor src/blockchain/decode.rs), of the type grammar and of the   *)
(* event-signature parser (src/blockchain/configuration.rs), of the block  *)
(* subscriber and the transaction processor that main wires together       *)
(* (src/blockchain/block.rs, src/blockchain/transaction.rs, src/main.rs)   *)
(* and of start-up (src/configuration.rs, src/utils/logger.rs).            *)
(*                                                                         *)
(* Bytes are the numbers 0..255 and a buffer is a sequence of bytes with   *)
(* 1-based positions: the Rust slice data[a..b] is SubSeq(data, a+1, b).   *)
(* The build modelled is the 64-bit one: usize and isize are 8 bytes wide. *)
(***************************************************************************)
EXTENDS Integers, Sequences, FiniteSets, TLC

VARIABLES
    entry,        \* which decode entry point runs: "decoder" or "decode"
    param_types,  \* EthereumDecoder.param_types / EventFilter.data_types
    data,         \* the log's data bytes
    pc,           \* "loop" while the for loop of decode runs, then "done"
    idx,          \* 1-based position of the next parameter of the loop
    offset,       \* the head cursor `offset` of decode
    parameters,   \* the Vec<Parameter> built so far
    result,       \* what decode returned: NoResult until it returns
    term,         \* a ParamType value built by a caller, or NoTerm
    type_str,     \* the string handed to ParamType::from_str: None, Some(s)
    parsed,       \* what ParamType::from_str returned
    signature,    \* the signature string handed to EventFilter
    ctor,         \* how the EventFilter was built: "new" or "deserialize"
    filter,       \* what the constructor returned
    subscriptions,\* EthereumTransactionProcessor.subscriptions
    mode,         \* how blocks arrive: "pubsub" or "poll", "none" before
    dpc,          \* where the subscriber is: see the driver's actions
    nblocks,      \* how many headers or hashes the stream has yielded
    blk,          \* the Block handed to the block callback
    ti,           \* 1-based position in the block's transactions
    li,           \* 1-based position in the receipt's logs
    fi,           \* 1-based position in the subscription's events
    calls,        \* the event callbacks made for this block, in order
    errlog,       \* the error! lines written for this block, in order
    sub_result,   \* what subscribe returned: NoResult while it runs
    environ,      \* the environment variables: name -> None, Some(s)
    env_name,     \* the argument of load_config: None, Some(env)
    files,        \* the files under resources/: name -> contents
    mpc,          \* where main is: see the actions of start-up
    logger,       \* what initialize_logger returned
    config,       \* what load_config returned
    exit_code,    \* the exit code of the process, -1 while it runs
    host_bits,    \* the width of usize on the host the crate is built for
    overflow_checks, \* whether the build checks integer overflow (debug)
    cur_offset,   \* the local `dynamic_offset` of decode_string/bytes
    cur_len       \* the local `len` of decode_string/bytes

decoderVars == <<entry, param_types, data, pc, idx, offset, parameters, result>>

grammarVars == <<term, type_str, parsed>>

signatureVars == <<signature, ctor, filter>>

driverVars ==
    <<subscriptions, mode, dpc, nblocks, blk, ti, li, fi, calls, errlog,
      sub_result>>

mainVars == <<environ, env_name, files, mpc, logger, config, exit_code>>

cursorVars == <<host_bits, overflow_checks, cur_offset, cur_len>>

vars ==
    <<decoderVars, grammarVars, signatureVars, driverVars, mainVars, cursorVars>>

-----------------------------------------------------------------------------
(* Outcomes of a Rust call: Ok(v), Err(e), or a panic that unwinds.        *)

Ok(v) == [kind |-> "Ok", v |-> v]

Err(e) == [kind |-> "Err", err |-> e]

Panic(why) == [kind |-> "Panic", why |-> why]

NoResult == [kind |-> "None"]

\* no ParamType value
NoTerm == [tag |-> "None"]

\* a string that may not be there yet
None == [some |-> FALSE]

Some(s) == [some |-> TRUE, s |-> s]

-----------------------------------------------------------------------------
(* usize arithmetic.  TLC's integers are 32 bits wide and as_usize yields  *)
(* values up to 2^32 - 1, so a usize is kept as two limbs, hi * 2^16 + lo. *)
(* On the 64-bit build no sum of two such values overflows a usize.        *)

Limb == 256 * 256

U(n) == [hi |-> n \div Limb, lo |-> n % Limb]

UAdd(a, b) ==
    LET s == a.lo + b.lo
    IN  [hi |-> a.hi + b.hi + (s \div Limb), lo |-> s % Limb]

UGt(a, b) == a.hi > b.hi \/ (a.hi = b.hi /\ a.lo > b.lo)

UNat(a) == a.hi * Limb + a.lo

Zeros(n) == [i \in 1..n |-> 0]

\* data[from..] of Rust, `from` 0-based
SliceFrom(bytes, from) == SubSeq(bytes, from + 1, Len(bytes))

-----------------------------------------------------------------------------
(* Byte cursor primitives: decoder.rs 229-263 (decode.rs 176-210 are the   *)
(* same functions with String errors).                                     *)

\* fn peek(data, offset, len): offset + len > data.len() is OutOfBounds
peek(bytes, off, len) ==
    IF UGt(UAdd(off, len), U(Len(bytes)))
    THEN Err("OutOfBounds")
    ELSE Ok(SubSeq(bytes, UNat(off) + 1, UNat(off) + UNat(len)))

\* fn peek_32_bytes(data, offset): the 32 bytes at offset, copied
peek_32_bytes(bytes, off) == peek(bytes, off, U(32))

\* an as_usize that lets the 28th byte through
as_usize_27(slice) ==
    IF \E i \in 1..27 : slice[i] # 0
    THEN Err("InvalidUnsignedInteger")
    ELSE Ok([hi |-> slice[29] * 256 + slice[30],
             lo |-> slice[31] * 256 + slice[32]])

\* fn as_usize(slice): the first 28 bytes must be zero, the last 4 are the
\* value, big-endian
as_usize(slice) ==
    IF \E i \in 1..28 : slice[i] # 0
    THEN Err("InvalidUnsignedInteger")
    ELSE Ok([hi |-> slice[29] * 256 + slice[30],
             lo |-> slice[31] * 256 + slice[32]])

\* a take_bytes without its bounds check: the slice expression panics
take_bytes_unchecked(bytes, off, len) ==
    IF UGt(UAdd(off, len), U(Len(bytes)))
    THEN Panic("range end index out of range for slice")
    ELSE Ok(SubSeq(bytes, UNat(off) + 1, UNat(off) + UNat(len)))

\* a take_bytes that copies up to the end of the word the payload ends in
take_bytes_padded(bytes, off, len) ==
    IF UGt(UAdd(off, len), U(Len(bytes)))
    THEN Err("OutOfBounds")
    ELSE LET end == UNat(off) + 32 * ((UNat(len) + 31) \div 32)
         IN  Ok(SubSeq(bytes, UNat(off) + 1,
                       IF end > Len(bytes) THEN Len(bytes) ELSE end))

\* fn take_bytes(data, offset, len): a copy of data[offset..offset+len]
take_bytes(bytes, off, len) ==
    IF UGt(UAdd(off, len), U(Len(bytes)))
    THEN Err("OutOfBounds")
    ELSE Ok(SubSeq(bytes, UNat(off) + 1, UNat(off) + UNat(len)))

-----------------------------------------------------------------------------
(* alloy_primitives::Signed<256, 4>.  try_from_be_slice of a 32-byte slice *)
(* always succeeds.  as_usize and as_isize are the checked conversions of  *)
(* the library ("Conversion to usize with overflow checking"): they panic  *)
(* when the 256-bit two's-complement value is outside the range of the     *)
(* target.  The host word is returned as its 8 big-endian bytes.           *)

UsizeBytes == 8

\* Signed::try_from_be_slice(slice).as_usize(): 0 <= value < 2^64
SignedAsUsize(slice) ==
    IF \A i \in 1..(32 - UsizeBytes) : slice[i] = 0
    THEN Ok(SubSeq(slice, 32 - UsizeBytes + 1, 32))
    ELSE Panic("as_usize: value out of range")

\* Signed::try_from_be_slice(slice).as_isize(): -2^63 <= value < 2^63
SignedAsIsize(slice) ==
    LET top == 32 - UsizeBytes
    IN  IF \/ (\A i \in 1..top : slice[i] = 0) /\ slice[top + 1] < 128
           \/ (\A i \in 1..top : slice[i] = 255) /\ slice[top + 1] >= 128
        THEN Ok(SubSeq(slice, top + 1, 32))
        ELSE Panic("as_isize: value out of range")

-----------------------------------------------------------------------------
(* UTF-8, as std validates it (String::from_utf8) and repairs it           *)
(* (String::from_utf8_lossy): Utf8Step reads one chunk at 1-based position *)
(* i and gives how many bytes it spans and whether they are a character.   *)

IsCont(bytes, i) == i <= Len(bytes) /\ bytes[i] >= 128 /\ bytes[i] <= 191

InRange(bytes, i, lo, hi) == i <= Len(bytes) /\ bytes[i] >= lo /\ bytes[i] <= hi

Utf8Step(bytes, i) ==
    LET b == bytes[i]
        bad(n) == [valid |-> FALSE, n |-> n]
        good(n) == [valid |-> TRUE, n |-> n]
    IN  IF b < 128 THEN good(1)
        ELSE IF b >= 194 /\ b <= 223
        THEN IF IsCont(bytes, i + 1) THEN good(2) ELSE bad(1)
        ELSE IF b >= 224 /\ b <= 239
        THEN IF ~ \/ b = 224 /\ InRange(bytes, i + 1, 160, 191)
                  \/ b \in (225..236) \cup {238, 239} /\ InRange(bytes, i + 1, 128, 191)
                  \/ b = 237 /\ InRange(bytes, i + 1, 128, 159)
             THEN bad(1)
             ELSE IF IsCont(bytes, i + 2) THEN good(3) ELSE bad(2)
        ELSE IF b >= 240 /\ b <= 244
        THEN IF ~ \/ b = 240 /\ InRange(bytes, i + 1, 144, 191)
                  \/ b \in 241..243 /\ InRange(bytes, i + 1, 128, 191)
                  \/ b = 244 /\ InRange(bytes, i + 1, 128, 143)
             THEN bad(1)
             ELSE IF ~IsCont(bytes, i + 2) THEN bad(2)
             ELSE IF ~IsCont(bytes, i + 3) THEN bad(3)
             ELSE good(4)
        ELSE bad(1)

RECURSIVE Utf8ValidFrom(_, _)
Utf8ValidFrom(bytes, i) ==
    IF i > Len(bytes) THEN TRUE
    ELSE LET s == Utf8Step(bytes, i)
         IN  s.valid /\ Utf8ValidFrom(bytes, i + s.n)

\* String::from_utf8(bytes): the bytes themselves, or FromUtf8Error
from_utf8(bytes) ==
    IF Utf8ValidFrom(bytes, 1) THEN Ok(bytes) ELSE Err("Utf8Error")

\* U+FFFD REPLACEMENT CHARACTER in UTF-8
Replacement == <<239, 191, 189>>

RECURSIVE LossyFrom(_, _)
LossyFrom(bytes, i) ==
    IF i > Len(bytes) THEN <<>>
    ELSE LET s == Utf8Step(bytes, i)
         IN  (IF s.valid THEN SubSeq(bytes, i, i + s.n - 1) ELSE Replacement)
                 \o LossyFrom(bytes, i + s.n)

\* String::from_utf8_lossy(bytes): every invalid chunk becomes U+FFFD
from_utf8_lossy(bytes) == LossyFrom(bytes, 1)

-----------------------------------------------------------------------------
(* Type terms (enum ParamType, configuration.rs 179-190) and decoded       *)
(* values (enum Parameter, decoder.rs 5-17).                               *)

Address == [tag |-> "Address"]

UInt(w) == [tag |-> "UInt", w |-> w]

\* ParamType::Int(w) (Int is the set of integers in TLA+)
IntType(w) == [tag |-> "Int", w |-> w]

Bool == [tag |-> "Bool"]

String == [tag |-> "String"]

Bytes == [tag |-> "Bytes"]

FixedBytes(n) == [tag |-> "FixedBytes", n |-> n]

Array(t) == [tag |-> "Array", t |-> t]

Struct(fields) == [tag |-> "Struct", fields |-> fields]

\* a Parameter: its variant and its payload
Parameter(variant, v) == [tag |-> variant, v |-> v]

\* Ok(DecodeResult { parameter, new_offset })
DecodeResult(parameter, new_offset) ==
    [kind |-> "Ok", parameter |-> parameter, new_offset |-> new_offset]

-----------------------------------------------------------------------------
(* The decoder: decoder.rs 63-227 (entry "decoder") and decode.rs 58-174   *)
(* (entry "decode").  The two differ in the String arm and in the type of  *)
(* their errors.  `mem` is the number of elements the allocator can give   *)
(* to try_reserve_exact.  The head cursor `off` is a small number; offsets *)
(* read from the data are usize limbs.                                     *)

RECURSIVE decode_parameter(_, _, _, _, _)
RECURSIVE decode_array_loop(_, _, _, _, _, _, _, _)
RECURSIVE decode_struct_loop(_, _, _, _, _, _, _)

decode_address(bytes, off) ==
    LET slice == peek_32_bytes(bytes, U(off))
    IN  IF slice.kind # "Ok" THEN slice
        ELSE DecodeResult(Parameter("Address", SubSeq(slice.v, 13, 32)), off + 32)

\* a decode_uint that wraps its value in the Int variant
decode_uint_as_int(bytes, off) ==
    LET slice == peek_32_bytes(bytes, U(off))
    IN  IF slice.kind # "Ok" THEN slice
        ELSE LET value == SignedAsUsize(slice.v)
             IN  IF value.kind # "Ok" THEN value
                 ELSE DecodeResult(Parameter("Int", value.v), off + 32)

decode_uint(bytes, off) ==
    LET slice == peek_32_bytes(bytes, U(off))
    IN  IF slice.kind # "Ok" THEN slice
        ELSE LET value == SignedAsUsize(slice.v)
             IN  IF value.kind # "Ok" THEN value
                 ELSE DecodeResult(Parameter("Uint", value.v), off + 32)

\* a decode_int that reads its word as an unsigned value
decode_int_unsigned(bytes, off) ==
    LET slice == peek_32_bytes(bytes, U(off))
    IN  IF slice.kind # "Ok" THEN slice
        ELSE LET value == SignedAsUsize(slice.v)
             IN  IF value.kind # "Ok" THEN value
                 ELSE DecodeResult(Parameter("Int", value.v), off + 32)

decode_int(bytes, off) ==
    LET slice == peek_32_bytes(bytes, U(off))
    IN  IF slice.kind # "Ok" THEN slice
        ELSE LET value == SignedAsIsize(slice.v)
             IN  IF value.kind # "Ok" THEN value
                 ELSE DecodeResult(Parameter("Int", value.v), off + 32)

\* a decode_bool that takes every non-zero last byte as true
decode_bool_nonzero(bytes, off) ==
    LET slice == peek_32_bytes(bytes, U(off))
    IN  IF slice.kind # "Ok" THEN slice
        ELSE DecodeResult(Parameter("Bool", slice.v[32] # 0), off + 32)

decode_bool(bytes, off) ==
    LET slice == peek_32_bytes(bytes, U(off))
    IN  IF slice.kind # "Ok" THEN slice
        ELSE DecodeResult(Parameter("Bool", slice.v[32] = 1), off + 32)

\* the three reads String and Bytes share: the head word as an offset, the
\* word there as a length, then that many bytes after it
dynamic_bytes(bytes, off) ==
    LET head == peek_32_bytes(bytes, U(off))
    IN  IF head.kind # "Ok" THEN head
        ELSE LET dynamic_offset == as_usize(head.v)
             IN  IF dynamic_offset.kind # "Ok" THEN dynamic_offset
                 ELSE LET word == peek_32_bytes(bytes, dynamic_offset.v)
                      IN  IF word.kind # "Ok" THEN word
                          ELSE LET len == as_usize(word.v)
                               IN  IF len.kind # "Ok" THEN len
                                   ELSE take_bytes(bytes,
                                            UAdd(dynamic_offset.v, U(32)), len.v)

decode_string(e, bytes, off) ==
    LET taken == dynamic_bytes(bytes, off)
    IN  IF taken.kind # "Ok" THEN taken
        ELSE IF e = "decoder"
        THEN LET str == from_utf8(taken.v)
             IN  IF str.kind # "Ok" THEN str
                 ELSE DecodeResult(Parameter("String", str.v), off + 32)
        ELSE DecodeResult(Parameter("String", from_utf8_lossy(taken.v)), off + 32)

decode_bytes(bytes, off) ==
    LET taken == dynamic_bytes(bytes, off)
    IN  IF taken.kind # "Ok" THEN taken
        ELSE DecodeResult(Parameter("Bytes", taken.v), off + 32)

decode_fixed_bytes(bytes, off, length) ==
    LET taken == take_bytes(bytes, U(off), U(length))
    IN  IF taken.kind # "Ok" THEN taken
        ELSE DecodeResult(Parameter("FixedBytes", taken.v), off + 32)

\* for _ in 0..len { decode_parameter(t, tail, new_offset)?; ... }
decode_array_loop(e, mem, t, tail, len, i, new_offset, acc) ==
    IF ~UGt(len, U(i)) THEN Ok(acc)
    ELSE LET res == decode_parameter(e, mem, t, tail, new_offset)
         IN  IF res.kind # "Ok" THEN res
             ELSE decode_array_loop(e, mem, t, tail, len, i + 1,
                                    res.new_offset, Append(acc, res.parameter))

\* a decode_array whose elements are decoded against the whole buffer,
\* from the cursor len_offset + 32
decode_array_outer(e, mem, bytes, off, t) ==
    LET head == peek_32_bytes(bytes, U(off))
    IN  IF head.kind # "Ok" THEN head
        ELSE LET len_offset == as_usize(head.v)
             IN  IF len_offset.kind # "Ok" THEN len_offset
                 ELSE LET word == peek_32_bytes(bytes, len_offset.v)
                      IN  IF word.kind # "Ok" THEN word
                          ELSE LET len == as_usize(word.v)
                               IN  IF len.kind # "Ok" THEN len
                                   ELSE IF UGt(len.v, mem)
                                   THEN Err("MemoryAllocationError")
                                   ELSE LET elems == decode_array_loop(e, mem, t, bytes,
                                                         len.v, 0,
                                                         UNat(len_offset.v) + 32, <<>>)
                                        IN  IF elems.kind # "Ok" THEN elems
                                            ELSE DecodeResult(
                                                     Parameter("Array", elems.v), off + 32)

decode_array(e, mem, bytes, off, t) ==
    LET head == peek_32_bytes(bytes, U(off))
    IN  IF head.kind # "Ok" THEN head
        ELSE LET len_offset == as_usize(head.v)
             IN  IF len_offset.kind # "Ok" THEN len_offset
                 ELSE LET word == peek_32_bytes(bytes, len_offset.v)
                      IN  IF word.kind # "Ok" THEN word
                          ELSE LET len == as_usize(word.v)
                               IN  IF len.kind # "Ok" THEN len
                                   ELSE IF UGt(len.v, mem)
                                   THEN Err("MemoryAllocationError")
                                   ELSE LET tail == SliceFrom(bytes, UNat(len_offset.v) + 32)
                                            elems == decode_array_loop(e, mem, t, tail,
                                                         len.v, 0, 0, <<>>)
                                        IN  IF elems.kind # "Ok" THEN elems
                                            ELSE DecodeResult(
                                                     Parameter("Array", elems.v), off + 32)

\* for param in t { decode_parameter(param, data, new_offset)?; ... }
decode_struct_loop(e, mem, t, bytes, i, new_offset, acc) ==
    IF i > Len(t) THEN DecodeResult(Parameter("Struct", acc), new_offset)
    ELSE LET res == decode_parameter(e, mem, t[i], bytes, new_offset)
         IN  IF res.kind # "Ok" THEN res
             ELSE decode_struct_loop(e, mem, t, bytes, i + 1,
                                     res.new_offset, Append(acc, res.parameter))

\* a decode_struct that leaves the cursor one head slot after the tuple
decode_struct_one_slot(e, mem, bytes, off, t) ==
    LET res == decode_struct_loop(e, mem, t, bytes, 1, off, <<>>)
    IN  IF res.kind # "Ok" THEN res
        ELSE DecodeResult(res.parameter, off + 32)

decode_struct(e, mem, bytes, off, t) ==
    decode_struct_loop(e, mem, t, bytes, 1, off, <<>>)

decode_parameter(e, mem, param_type, bytes, off) ==
    CASE param_type.tag = "Address" -> decode_address(bytes, off)
      [] param_type.tag = "UInt" -> decode_uint(bytes, off)
      [] param_type.tag = "Int" -> decode_int(bytes, off)
      [] param_type.tag = "Bool" -> decode_bool(bytes, off)
      [] param_type.tag = "String" -> decode_string(e, bytes, off)
      [] param_type.tag = "Bytes" -> decode_bytes(bytes, off)
      [] param_type.tag = "FixedBytes" -> decode_fixed_bytes(bytes, off, param_type.n)
      [] param_type.tag = "Array" -> decode_array(e, mem, bytes, off, param_type.t)
      [] param_type.tag = "Struct" -> decode_struct(e, mem, bytes, off, param_type.fields)

\* the error value an entry point returns: a DecodeError of decoder.rs, its
\* text in decode.rs (whose functions return Result<_, String>)
ErrorOf(e, err) ==
    IF e = "decoder" THEN err
    ELSE CASE err = "OutOfBounds" -> "Out of bounds"
           [] err = "InvalidUnsignedInteger" -> "Data is not a valid unsigned integer"
           [] err = "MemoryAllocationError" -> "Out of memory"

-----------------------------------------------------------------------------
(* Inputs.  A buffer is up to MaxWords words of the palette, with the last *)
(* word possibly cut short.                                                *)

MaxWords == 3

\* the 32-byte word whose big-endian value is the byte n
Word(n) == Zeros(31) \o <<n>>

\* ff..ffd6, the word of decoder.rs test_decode_int (-42)
WordNeg42 == [i \in 1..32 |-> IF i = 32 THEN 214 ELSE 255]

\* "Hi" followed by padding
WordHi == <<72, 105>> \o Zeros(30)

\* a continuation byte with no leader, then padding
WordCont == <<128>> \o Zeros(31)

\* 2^32 - 1, the largest value as_usize accepts
WordMaxU32 == Zeros(28) \o <<255, 255, 255, 255>>

\* 2^32: the last of the 28 bytes as_usize wants zero is 1
WordTwo32 == Zeros(27) \o <<1, 0, 0, 0, 0>>

Palette ==
    {Word(0), Word(1), Word(32), Word(64),
     WordNeg42, WordHi, WordCont, WordMaxU32, WordTwo32}

\* how many bytes the last word of a buffer may lack
Cuts == {0, 28}

Flatten(ws) ==
    [i \in 1..(32 * Len(ws)) |-> ws[((i - 1) \div 32) + 1][((i - 1) % 32) + 1]]

Buffers ==
    {SubSeq(Flatten(ws), 1, 32 * Len(ws) - c) :
        ws \in {w \in UNION {[1..n -> Palette] : n \in 0..MaxWords} : TRUE},
        c \in {k \in Cuts : TRUE}} \cap Seq(0..255)

ParamLists ==
    {<<>>,
     <<Address>>, <<UInt(256)>>, <<IntType(256)>>, <<Bool>>,
     <<String>>, <<Bytes>>, <<FixedBytes(4)>>, <<FixedBytes(32)>>,
     <<Array(UInt(256))>>, <<Array(String)>>,
     <<Struct(<<UInt(256), Bool>>)>>,
     <<UInt(8), Bool>>, <<String, IntType(64)>>,
     <<Struct(<<UInt(256), Bool>>), Bool>>}

Entries == {"decoder", "decode"}

\* what try_reserve_exact can give: one element only, or more than any
\* length a word can name (2^32 elements)
AllocLimits == {U(1), [hi |-> Limb, lo |-> 0]}

-----------------------------------------------------------------------------
(* The state machine: EthereumDecoder::decode (decoder.rs 198-207) and     *)
(* decode_event (decode.rs 44-56), one loop iteration per step.            *)

\* the components a behaviour does not exercise stay as they are here
IdleDecoder ==
    /\ entry = "decoder"
    /\ param_types = <<>>
    /\ data = <<>>
    /\ pc = "idle"
    /\ idx = 1
    /\ offset = 0
    /\ parameters = <<>>
    /\ result = NoResult

IdleGrammar ==
    /\ term = NoTerm
    /\ type_str = None
    /\ parsed = NoResult

IdleSignature ==
    /\ signature = ""
    /\ ctor = "none"
    /\ filter = NoResult

IdleDriver ==
    /\ subscriptions = <<>>
    /\ mode = "none"
    /\ dpc = "idle"
    /\ nblocks = 0
    /\ blk = <<>>
    /\ ti = 1
    /\ li = 1
    /\ fi = 1
    /\ calls = <<>>
    /\ errlog = <<>>
    /\ sub_result = NoResult

\* the decoder model runs on the 64-bit host; nothing is being read
IdleCursor ==
    /\ host_bits = 8 * UsizeBytes
    /\ overflow_checks = FALSE
    /\ cur_offset = U(0)
    /\ cur_len = U(0)

IdleMain ==
    /\ environ = <<>>
    /\ env_name = None
    /\ files = <<>>
    /\ mpc = "idle"
    /\ logger = NoResult
    /\ config = NoResult
    /\ exit_code = -1

Init ==
    /\ IdleDriver
    /\ IdleMain
    /\ IdleCursor
    /\ entry \in Entries
    /\ param_types \in ParamLists
    /\ data \in Buffers
    /\ pc = "loop"
    /\ idx = 1
    /\ offset = 0
    /\ parameters = <<>>
    /\ result = NoResult
    /\ IdleGrammar
    /\ IdleSignature

\* one iteration of `for param_type in &self.param_types`
DecodeStep ==
    /\ pc = "loop"
    /\ idx <= Len(param_types)
    /\ \E mem \in AllocLimits :
        LET res == decode_parameter(entry, mem, param_types[idx], data, offset)
        IN  IF res.kind = "Ok"
            THEN /\ parameters' = Append(parameters, res.parameter)
                 /\ offset' = res.new_offset
                 /\ idx' = idx + 1
                 /\ UNCHANGED <<pc, result>>
            ELSE /\ result' = (IF res.kind = "Err"
                               THEN Err(ErrorOf(entry, res.err)) ELSE res)
                 /\ parameters' = <<>>
                 /\ pc' = "done"
                 /\ UNCHANGED <<idx, offset>>
    /\ UNCHANGED <<entry, param_types, data>>
    /\ UNCHANGED <<grammarVars, signatureVars, driverVars, mainVars>>
    /\ UNCHANGED cursorVars

\* the loop is over: Ok(parameters)
DecodeReturn ==
    /\ pc = "loop"
    /\ idx > Len(param_types)
    /\ result' = Ok(parameters)
    /\ pc' = "done"
    /\ UNCHANGED <<entry, param_types, data, idx, offset, parameters>>
    /\ UNCHANGED <<grammarVars, signatureVars, driverVars, mainVars>>
    /\ UNCHANGED cursorVars

Next == DecodeStep \/ DecodeReturn

Spec == Init /\ [][Next]_vars

-----------------------------------------------------------------------------
(* What the properties below read off a state.  While pc = "loop" and      *)
(* idx <= Len(param_types) the next iteration decodes param_types[idx] at  *)
(* head cursor `offset`; a failed iteration leaves idx and offset as they  *)
(* were, so in a "done" state with an error they name the parameter that   *)
(* failed and its head slot.                                               *)

\* the 32 bytes at 0-based position pos of the log data
WordAt(pos) == SubSeq(data, pos + 1, pos + 32)

TopZero(word) == \A i \in 1..28 : word[i] = 0

\* the big-endian value of the last 4 bytes of a word, as limbs
Low4(word) == [hi |-> word[29] * 256 + word[30], lo |-> word[31] * 256 + word[32]]

\* a parameter of one of `tags` is at the head cursor
AtParam(tags) == idx <= Len(param_types) /\ param_types[idx].tag \in tags

\* its head word is inside the buffer
HeadInBounds == offset + 32 <= Len(data)

\* the head word names an offset o: its 28 high bytes are zero
NamesOffset == HeadInBounds /\ TopZero(WordAt(offset))

NamedOffset == Low4(WordAt(offset))

\* the word at o is inside the buffer
LengthInBounds == NamesOffset /\ ~UGt(UAdd(NamedOffset, U(32)), U(Len(data)))

\* and names a length L
NamesLength == LengthInBounds /\ TopZero(WordAt(UNat(NamedOffset)))

NamedLength == Low4(WordAt(UNat(NamedOffset)))

\* o + 32 + L exceeds the buffer
PayloadExceeds ==
    UGt(UAdd(UAdd(NamedOffset, U(32)), NamedLength), U(Len(data)))

\* the L bytes data[o+32 .. o+32+L], when they are inside the buffer
Payload ==
    SubSeq(data, UNat(NamedOffset) + 33, UNat(NamedOffset) + 32 + UNat(NamedLength))

Failed(err) == pc = "done" /\ result = Err(ErrorOf(entry, err))

RECURSIVE Matches(_, _)
\* a value has the shape of a term
Matches(t, p) ==
    CASE t.tag = "Address" -> p.tag = "Address" /\ Len(p.v) = 20
      [] t.tag = "UInt" -> p.tag = "Uint"
      [] t.tag = "Int" -> p.tag = "Int"
      [] t.tag = "Bool" -> p.tag = "Bool" /\ p.v \in BOOLEAN
      [] t.tag = "String" -> p.tag = "String"
      [] t.tag = "Bytes" -> p.tag = "Bytes"
      [] t.tag = "FixedBytes" -> p.tag = "FixedBytes"
      [] t.tag = "Array" ->
            p.tag = "Array" /\ \A i \in 1..Len(p.v) : Matches(t.t, p.v[i])
      [] t.tag = "Struct" ->
            /\ p.tag = "Struct"
            /\ Len(p.v) = Len(t.fields)
            /\ \A i \in 1..Len(p.v) : Matches(t.fields[i], p.v[i])

-----------------------------------------------------------------------------
(* C1: a successful decode returns one value per parameter, and the i-th   *)
(* value has the variant of the i-th term: arrays hold only values of      *)
(* their element term, a struct has the arity and fields of its tuple.     *)
C1_StructuralShape ==
    result.kind = "Ok" =>
        /\ Len(result.v) = Len(param_types)
        /\ \A i \in 1..Len(param_types) : Matches(param_types[i], result.v[i])

\* a decode has returned a non-empty array
C1_Witness ==
    /\ result.kind = "Ok"
    /\ Len(param_types) = 1
    /\ param_types[1].tag = "Array"
    /\ Len(result.v[1].v) >= 1

(* C2: when the head word of a String or Bytes parameter names an offset o *)
(* and the word at o names a length L with o + 32 + L beyond the end of    *)
(* the buffer, the iteration fails with OutOfBounds and yields no value.   *)
C2_LengthInflation ==
    [][(pc = "loop" /\ AtParam({"String", "Bytes"}) /\ NamesLength /\ PayloadExceeds)
          => /\ result' = Err(ErrorOf(entry, "OutOfBounds"))
             /\ parameters' = <<>>]_vars

\* such a decode has happened, with the length word itself inside the buffer
C2_Witness ==
    /\ Failed("OutOfBounds")
    /\ AtParam({"String", "Bytes"})
    /\ NamesLength
    /\ PayloadExceeds

(* C3: an in-bounds word read as the offset of a String, Bytes or Array    *)
(* parameter, or as the length at that offset, fails the decode with       *)
(* InvalidUnsignedInteger when one of its first 28 bytes is not zero;      *)
(* otherwise the big-endian value of its last 4 bytes is what is used: the *)
(* length word is read at that offset, and a decoded Bytes or Array has    *)
(* that length.                                                            *)
C3_StrictUsize ==
    [][(pc = "loop" /\ AtParam({"String", "Bytes", "Array"}) /\ HeadInBounds)
          => IF ~NamesOffset
             THEN result' = Err(ErrorOf(entry, "InvalidUnsignedInteger"))
             ELSE IF ~LengthInBounds
             THEN result' = Err(ErrorOf(entry, "OutOfBounds"))
             ELSE IF ~NamesLength
             THEN result' = Err(ErrorOf(entry, "InvalidUnsignedInteger"))
             ELSE (result' = NoResult /\ AtParam({"Bytes", "Array"}))
                     => U(Len(parameters'[idx].v)) = NamedLength]_vars

\* a decode has failed on a length word, read at a named offset other than 0
C3_Witness ==
    /\ Failed("InvalidUnsignedInteger")
    /\ AtParam({"String", "Bytes", "Array"})
    /\ LengthInBounds
    /\ UNat(NamedOffset) > 0
    /\ ~NamesLength

(* C4: a String parameter whose payload is inside the buffer and is not    *)
(* valid UTF-8 fails with Utf8Error, whichever entry point decodes it, and *)
(* no String value is returned for it.                                     *)
C4_Utf8Strict ==
    [][(/\ pc = "loop"
        /\ AtParam({"String"})
        /\ NamesLength
        /\ ~PayloadExceeds
        /\ ~Utf8ValidFrom(Payload, 1))
          => /\ result' = Err("Utf8Error")
             /\ parameters' = <<>>]_vars

(* C5: decode always returns, Ok(values) or Err(error): it never panics.   *)
C5_NeverPanics == pc = "done" => result.kind \in {"Ok", "Err"}

(* C6: a one-word static parameter whose head slot has fewer than 32 bytes *)
(* left in the buffer fails the decode, and the failed decode returns the  *)
(* error alone.                                                            *)
C6_UnderLengthWord ==
    [][(/\ pc = "loop"
        /\ AtParam({"Address", "UInt", "Int", "Bool", "FixedBytes"})
        /\ ~HeadInBounds)
          => /\ result'.kind = "Err"
             /\ parameters' = <<>>]_vars

-----------------------------------------------------------------------------
(* Strings.  A Rust &str is a TLA+ string; positions are 1-based.          *)

\* s.starts_with(p)
StartsWith(s, p) == Len(s) >= Len(p) /\ SubSeq(s, 1, Len(p)) = p

\* s.ends_with(p)
EndsWith(s, p) == Len(s) >= Len(p) /\ SubSeq(s, Len(s) - Len(p) + 1, Len(s)) = p

\* char::is_whitespace, for the characters the inputs use
IsWhitespace(c) == c = " "

RECURSIVE TrimStart(_)
TrimStart(s) ==
    IF Len(s) > 0 /\ IsWhitespace(SubSeq(s, 1, 1))
    THEN TrimStart(SubSeq(s, 2, Len(s)))
    ELSE s

RECURSIVE TrimEnd(_)
TrimEnd(s) ==
    IF Len(s) > 0 /\ IsWhitespace(SubSeq(s, Len(s), Len(s)))
    THEN TrimEnd(SubSeq(s, 1, Len(s) - 1))
    ELSE s

\* s.trim()
Trim(s) == TrimEnd(TrimStart(s))

RECURSIVE SplitFrom(_, _, _, _)
\* the pieces of s between occurrences of the character sep, from position
\* i on, `from` being where the current piece starts
SplitFrom(s, sep, from, i) ==
    IF i > Len(s) THEN <<SubSeq(s, from, Len(s))>>
    ELSE IF SubSeq(s, i, i) = sep
    THEN <<SubSeq(s, from, i - 1)>> \o SplitFrom(s, sep, i + 1, i + 1)
    ELSE SplitFrom(s, sep, from, i + 1)

\* s.split(sep).collect(): "" gives one empty piece
Split(s, sep) == SplitFrom(s, sep, 1, 1)

RECURSIVE Join(_, _)
\* pieces.join(sep)
Join(pieces, sep) ==
    IF Len(pieces) = 0 THEN ""
    ELSE IF Len(pieces) = 1 THEN pieces[1]
    ELSE pieces[1] \o sep \o Join(Tail(pieces), sep)

-----------------------------------------------------------------------------
(* The type grammar: impl FromStr for ParamType (configuration.rs 192-242) *)
(* and ParamType::name (configuration.rs 244-282).                         *)

RECURSIVE from_str(_)
RECURSIVE from_str_fields(_, _, _)

\* a field loop that drops a field it cannot parse and keeps going
from_str_fields_skip(types, i, struct_fields) ==
    IF i > Len(types) THEN Ok(Struct(struct_fields))
    ELSE LET data_type == from_str(Trim(types[i]))
         IN  IF data_type.kind # "Ok"
             THEN from_str_fields(types, i + 1, struct_fields)
             ELSE from_str_fields(types, i + 1, Append(struct_fields, data_type.v))

\* for t in types { match ParamType::from_str(t.trim()) { ... } }
from_str_fields(types, i, struct_fields) ==
    IF i > Len(types) THEN Ok(Struct(struct_fields))
    ELSE LET data_type == from_str(Trim(types[i]))
         IN  IF data_type.kind # "Ok" THEN Err("()")
             ELSE from_str_fields(types, i + 1, Append(struct_fields, data_type.v))

from_str(s) ==
    CASE s = "address" -> Ok(Address)
      [] s = "uint256" -> Ok(UInt(256))
      [] s = "uint128" -> Ok(UInt(128))
      [] s = "uint64" -> Ok(UInt(64))
      [] s = "uint32" -> Ok(UInt(32))
      [] s = "uint16" -> Ok(UInt(16))
      [] s = "uint8" -> Ok(UInt(8))
      [] s = "uint" -> Ok(UInt(256))
      [] s = "int256" -> Ok(IntType(256))
      [] s = "int128" -> Ok(IntType(128))
      [] s = "int64" -> Ok(IntType(64))
      [] s = "int32" -> Ok(IntType(32))
      [] s = "int16" -> Ok(IntType(16))
      [] s = "int8" -> Ok(IntType(8))
      [] s = "int" -> Ok(IntType(256))
      [] s = "bool" -> Ok(Bool)
      [] s = "string" -> Ok(String)
      [] s = "bytes" -> Ok(Bytes)
      [] s = "bytes32" -> Ok(FixedBytes(32))
      [] s = "bytes16" -> Ok(FixedBytes(16))
      [] s = "bytes8" -> Ok(FixedBytes(8))
      [] s = "bytes4" -> Ok(FixedBytes(4))
      [] s = "bytes2" -> Ok(FixedBytes(2))
      [] OTHER ->
            IF StartsWith(s, "(") /\ EndsWith(s, ")")
            THEN LET inner == SubSeq(s, 2, Len(s) - 1)
                     types == Split(inner, ",")
                 IN  from_str_fields(types, 1, <<>>)
            ELSE IF EndsWith(s, "[]")
            THEN LET base_type == SubSeq(s, 1, Len(s) - 2)
                     t == from_str(base_type)
                 IN  IF t.kind = "Ok" THEN Ok(Array(t.v)) ELSE Err("()")
            ELSE Err("()")

RECURSIVE name(_)
RECURSIVE names(_)

\* fields.iter().map(|f| f.name()).collect::<Vec<String>>()
names(fields) ==
    IF Len(fields) = 0 THEN <<>>
    ELSE <<name(fields[1])>> \o names(Tail(fields))

name(t) ==
    CASE t.tag = "Address" -> "address"
      [] t.tag = "UInt" ->
            CASE t.w = 256 -> "uint256"
              [] t.w = 128 -> "uint128"
              [] t.w = 64 -> "uint64"
              [] t.w = 32 -> "uint32"
              [] t.w = 16 -> "uint16"
              [] t.w = 8 -> "uint8"
              [] OTHER -> "uint256"
      [] t.tag = "Int" ->
            CASE t.w = 256 -> "int256"
              [] t.w = 128 -> "int128"
              [] t.w = 64 -> "int64"
              [] t.w = 32 -> "int32"
              [] t.w = 16 -> "int16"
              [] t.w = 8 -> "int8"
              [] OTHER -> "int256"
      [] t.tag = "Bool" -> "bool"
      [] t.tag = "String" -> "string"
      [] t.tag = "Bytes" -> "bytes"
      [] t.tag = "FixedBytes" ->
            CASE t.n = 32 -> "bytes32"
              [] t.n = 16 -> "bytes16"
              [] t.n = 8 -> "bytes8"
              [] t.n = 4 -> "bytes4"
              [] t.n = 2 -> "bytes2"
              [] OTHER -> "bytes"
      [] t.tag = "Array" -> name(t.t) \o "[]"
      [] t.tag = "Struct" -> "(" \o Join(names(t.fields), ", ") \o ")"

-----------------------------------------------------------------------------
(* The grammar's state machine.  A caller builds a ParamType value from a  *)
(* leaf with the enum's constructors, renders it with name() and parses    *)
(* the rendering with from_str(); or it hands from_str() a string of its   *)
(* own.                                                                    *)

MaxDepth == 2

\* the leaves from_str can return
Leaves ==
    {Address, Bool, String, Bytes}
        \cup {UInt(w) : w \in {8, 16, 32, 64, 128, 256}}
        \cup {IntType(w) : w \in {8, 16, 32, 64, 128, 256}}
        \cup {FixedBytes(n) : n \in {2, 4, 8, 16, 32}}

\* the leaves a caller puts beside a term in a two-field tuple
FieldLeaves == {Address, Bool, UInt(256)}

\* type strings that are not renderings
TypeStrings ==
    {"", "[]", "()", "uint", "int", "uint7", "bytes3", "byte", " uint256",
     "uint256 []", "uint256[]", "uint256[][]", "[]uint256",
     "(uint256,bool)", "( uint256 , bool )", "(uint256,bool)[]",
     "(uint256,(bool,address))", "((bool,address),uint256)",
     "((bool),(address))", "((uint256,bool)[],address)", "(uint256,)",
     "(uint256", "uint256)", "(uint256,bool)[", "(,)", "(string[],bytes)"}

RECURSIVE Depth(_)
RECURSIVE MaxFieldDepth(_, _)

MaxFieldDepth(fields, i) ==
    IF i > Len(fields) THEN 0
    ELSE LET d == Depth(fields[i])
             rest == MaxFieldDepth(fields, i + 1)
         IN  IF d > rest THEN d ELSE rest

\* how deeply a term nests arrays and tuples
Depth(t) ==
    CASE t.tag = "Array" -> 1 + Depth(t.t)
      [] t.tag = "Struct" -> 1 + MaxFieldDepth(t.fields, 1)
      [] OTHER -> 0

InitGrammar ==
    /\ IdleDecoder
    /\ IdleDriver
    /\ IdleMain
    /\ IdleCursor
    /\ IdleSignature
    /\ parsed = NoResult
    /\ \/ term \in Leaves /\ type_str = None
       \/ term = NoTerm /\ type_str \in {Some(s) : s \in TypeStrings}

Building == term # NoTerm /\ type_str = None /\ Depth(term) < MaxDepth

\* ParamType::Array(Box::new(term))
WrapArray ==
    /\ Building
    /\ term' = Array(term)
    /\ UNCHANGED <<type_str, parsed, decoderVars, signatureVars,
                 driverVars, mainVars, cursorVars>>

\* ParamType::Struct(vec![..]) with the term as one of one or two fields
WrapStruct ==
    /\ Building
    /\ \E fields \in {<<term>>, <<term, term>>}
                        \cup {<<term, leaf>> : leaf \in FieldLeaves}
                        \cup {<<leaf, term>> : leaf \in FieldLeaves} :
            term' = Struct(fields)
    /\ UNCHANGED <<type_str, parsed, decoderVars, signatureVars,
                 driverVars, mainVars, cursorVars>>

\* term.name()
Render ==
    /\ term # NoTerm
    /\ type_str = None
    /\ type_str' = Some(name(term))
    /\ UNCHANGED <<term, parsed, decoderVars, signatureVars,
                 driverVars, mainVars, cursorVars>>

\* ParamType::from_str(&type_str)
Parse ==
    /\ type_str # None
    /\ parsed = NoResult
    /\ parsed' = from_str(type_str.s)
    /\ UNCHANGED <<term, type_str, decoderVars, signatureVars,
                 driverVars, mainVars, cursorVars>>

NextGrammar == WrapArray \/ WrapStruct \/ Render \/ Parse

SpecGrammar == InitGrammar /\ [][NextGrammar]_vars

-----------------------------------------------------------------------------
(* Claims about the type grammar, checked under SpecGrammar.               *)

\* the term was built by the constructors, rendered and parsed back
RoundTripped == term # NoTerm /\ type_str # None /\ parsed # NoResult

\* C7: grammar round trip: for every type term t built from the listed
\* leaves, arrays and tuples (tuples inside tuples included), parsing the
\* rendering gives the term back: ParamType::from_str(t.name()) == Ok(t).
C7_RoundTrip == RoundTripped => parsed = Ok(term)

RECURSIVE SplitDepth0From(_, _, _, _)
\* the pieces of s between the commas that sit outside every parenthesis
SplitDepth0From(s, i, depth, piece) ==
    IF i > Len(s) THEN <<piece>>
    ELSE LET c == SubSeq(s, i, i)
         IN  IF c = "," /\ depth = 0
             THEN <<piece>> \o SplitDepth0From(s, i + 1, 0, "")
             ELSE SplitDepth0From(s, i + 1,
                      IF c = "(" THEN depth + 1
                      ELSE IF c = ")" THEN depth - 1 ELSE depth,
                      piece \o c)

SplitDepth0(s) == SplitDepth0From(s, 1, 0, "")

RECURSIVE Balanced(_, _, _)
\* every ")" of s closes a "(" of s and none stays open
Balanced(s, i, depth) ==
    IF i > Len(s) THEN depth = 0
    ELSE LET c == SubSeq(s, i, i)
         IN  IF c = "(" THEN Balanced(s, i + 1, depth + 1)
             ELSE IF c = ")" THEN depth > 0 /\ Balanced(s, i + 1, depth - 1)
             ELSE Balanced(s, i + 1, depth)

\* s is "(" inner ")" with inner balanced
TupleString(s) ==
    /\ StartsWith(s, "(") /\ EndsWith(s, ")")
    /\ Balanced(SubSeq(s, 2, Len(s) - 1), 1, 0)

\* the depth-0 components of a tuple string, trimmed and parsed
Components(s) ==
    LET pieces == SplitDepth0(SubSeq(s, 2, Len(s) - 1))
    IN  [i \in 1..Len(pieces) |-> from_str(Trim(pieces[i]))]

\* C10: parse_type splits the interior of a tuple string on the commas at
\* nesting depth 0 only: a tuple string whose depth-0 components parse gives
\* a Tuple with one field per component, so "(uint256,(bool,address))" is
\* Tuple(UInt 256, Tuple(Bool, Address)).
C10_Depth0Split ==
    (type_str # None /\ parsed # NoResult /\ TupleString(type_str.s)) =>
        LET fields == Components(type_str.s)
        IN  /\ (\A i \in 1..Len(fields) : fields[i].kind = "Ok") =>
                    parsed = Ok(Struct([i \in 1..Len(fields) |-> fields[i].v]))
            /\ type_str.s = "(uint256,(bool,address))" =>
                    parsed = Ok(Struct(<<UInt(256), Struct(<<Bool, Address>>)>>))

-----------------------------------------------------------------------------
(* Event signatures: EventFilter (configuration.rs 284-364).               *)

Letters ==
    {"a", "b", "c", "d", "e", "f", "g", "h", "i", "j", "k", "l", "m",
     "n", "o", "p", "q", "r", "s", "t", "u", "v", "w", "x", "y", "z",
     "A", "B", "C", "D", "E", "F", "G", "H", "I", "J", "K", "L", "M",
     "N", "O", "P", "Q", "R", "S", "T", "U", "V", "W", "X", "Y", "Z"}

Digits == {"0", "1", "2", "3", "4", "5", "6", "7", "8", "9"}

\* \w of the regex crate, on the ASCII characters the inputs are made of
IsWordChar(c) == c \in Letters \cup Digits \cup {"_"}

RECURSIVE WordRun(_, _)
\* the end of the longest run of word characters that starts at s[i]
WordRun(s, i) ==
    IF i <= Len(s) /\ IsWordChar(SubSeq(s, i, i)) THEN WordRun(s, i + 1)
    ELSE i

RECURSIVE NoneIs(_, _, _)
\* no character of s[i..] is c
NoneIs(s, i, c) ==
    i > Len(s) \/ (SubSeq(s, i, i) # c /\ NoneIs(s, i + 1, c))

\* captures of ^(\w+)\((.+)\)$, a shape that lets ")" into the region
captures_any_region(event_signature) ==
    LET s == event_signature
        open == WordRun(s, 1)
    IN  IF /\ open > 1
           /\ open + 2 <= Len(s)
           /\ SubSeq(s, open, open) = "("
           /\ EndsWith(s, ")")
        THEN Ok(<<SubSeq(s, 1, open - 1), SubSeq(s, open + 1, Len(s) - 1)>>)
        ELSE NoResult

\* Regex::new(r"^(\w+)\(([^)]+)\)$").captures(event_signature): \w+ takes
\* the word characters up to the first other character, which has to be
\* "("; the rest is one or more characters other than ")" and a last ")"
captures(event_signature) ==
    LET s == event_signature
        open == WordRun(s, 1)
    IN  IF /\ open > 1
           /\ open + 2 <= Len(s)
           /\ SubSeq(s, open, open) = "("
           /\ EndsWith(s, ")")
           /\ NoneIs(SubSeq(s, open + 1, Len(s) - 1), 1, ")")
        THEN Ok(<<SubSeq(s, 1, open - 1), SubSeq(s, open + 1, Len(s) - 1)>>)
        ELSE NoResult

is_valid_signature_format(event_signature) ==
    captures(event_signature) # NoResult

RECURSIVE collect_types(_, _, _)
\* .map(|s| s.trim()).map(|type_str| ParamType::from_str(..)).collect()
collect_types(pieces, i, data_types) ==
    IF i > Len(pieces) THEN Ok(data_types)
    ELSE LET type_s == Trim(pieces[i])
             t == from_str(Trim(type_s))
         IN  IF t.kind # "Ok" THEN Err("Unsupported data type: " \o type_s)
             ELSE collect_types(pieces, i + 1, Append(data_types, t.v))

extract_event_signature(event_signature) ==
    LET caps == captures(event_signature)
    IN  IF caps # NoResult
        THEN LET event_name == caps.v[1]
                 data_types == collect_types(Split(caps.v[2], ","), 1, <<>>)
             IN  IF data_types.kind # "Ok" THEN data_types
                 ELSE Ok(<<event_name, data_types.v>>)
        ELSE Err("Event signature format is invalid.")

\* alloy's keccak256: a digest that tells any two inputs apart
keccak256(bytes) == <<"keccak256", bytes>>

\* signature.as_bytes()
as_bytes(s) == s

\* the struct literal of EventFilter
EventFilter(signature_, hash, event_name, data_types) ==
    [signature |-> signature_, hash |-> hash, event_name |-> event_name,
     data_types |-> data_types]

\* the signature written from its parsed parts, as name() writes types
Canonical(event_name, data_types) ==
    event_name \o "(" \o Join(names(data_types), ",") \o ")"

\* a constructor that hashes the canonical form in place of the input
EventFilter_new_canonical(signature_) ==
    IF ~is_valid_signature_format(signature_)
    THEN Err("Invalid event signature format.")
    ELSE LET r == extract_event_signature(signature_)
         IN  IF r.kind # "Ok" THEN r
             ELSE Ok(EventFilter(signature_,
                                 keccak256(as_bytes(Canonical(r.v[1], r.v[2]))),
                                 r.v[1], r.v[2]))

\* EventFilter::new(signature)
EventFilter_new(signature_) ==
    IF ~is_valid_signature_format(signature_)
    THEN Err("Invalid event signature format.")
    ELSE LET r == extract_event_signature(signature_)
         IN  IF r.kind # "Ok" THEN r
             ELSE Ok(EventFilter(signature_, keccak256(as_bytes(signature_)),
                                 r.v[1], r.v[2]))

\* <EventFilter as Deserialize>::deserialize on a string s
EventFilter_deserialize(s) ==
    LET r == extract_event_signature(s)
    IN  IF r.kind # "Ok" THEN Err("Invalid event signature: " \o s)
        ELSE Ok(EventFilter(s, keccak256(as_bytes(s)), r.v[1], r.v[2]))

\* event names and parameter regions the signatures are put together from
SigNames == {"E", "Transfer", "_e", "e_1", "1E", "9", "", "E F"}

SigParams ==
    {"uint256", "uint", "address,uint256", " uint256 , bool ", "", " ",
     "uint7", "uint256[]", "(uint256,bool)", "x)y", "address,,bool",
     "string,bytes32", "(uint256)", "(uint256,bool)[]", "bool,(uint256)[]"}

SignatureStrings ==
    UNION {{n \o "(" \o p \o ")",
            n \o "(" \o p \o ") ",
            " " \o n \o "(" \o p \o ")",
            n \o "(" \o p,
            n \o p \o ")",
            n \o "(" \o p \o "))",
            n \o "(" \o p \o ")x"} : n \in SigNames, p \in SigParams}

InitSignature ==
    /\ IdleDecoder
    /\ IdleDriver
    /\ IdleMain
    /\ IdleCursor
    /\ IdleGrammar
    /\ signature \in SignatureStrings
    /\ ctor = "none"
    /\ filter = NoResult

\* a caller builds the filter with EventFilter::new
New ==
    /\ ctor = "none"
    /\ ctor' = "new"
    /\ filter' = EventFilter_new(signature)
    /\ UNCHANGED <<signature, decoderVars, grammarVars, driverVars, mainVars>>
    /\ UNCHANGED cursorVars

\* the configuration loader builds the filter with serde
Deserialize ==
    /\ ctor = "none"
    /\ ctor' = "deserialize"
    /\ filter' = EventFilter_deserialize(signature)
    /\ UNCHANGED <<signature, decoderVars, grammarVars, driverVars, mainVars>>
    /\ UNCHANGED cursorVars

NextSignature == New \/ Deserialize

SpecSignature == InitSignature /\ [][NextSignature]_vars

-----------------------------------------------------------------------------
(* Claims about event signatures, checked under SpecSignature.             *)

Built == ctor # "none" /\ filter.kind = "Ok"

\* C8: however an event descriptor is built (EventFilter::new or
\* deserialization), its hash is Keccak-256 of the exact bytes of the
\* signature string as given, not of a canonical or trimmed form, and its
\* signature field is that input string.
C8_HashOfExactInput ==
    Built =>
        /\ filter.v.signature = signature
        /\ filter.v.hash = keccak256(as_bytes(signature))
        /\ Canonical(filter.v.event_name, filter.v.data_types) # signature =>
                filter.v.hash # keccak256(as_bytes(
                    Canonical(filter.v.event_name, filter.v.data_types)))

\* a filter built by EventFilter::new from a signature that is not in
\* canonical form
C8_Witness ==
    /\ Built
    /\ ctor = "new"
    /\ Canonical(filter.v.event_name, filter.v.data_types) # signature

\* the shape of the specification: ^[A-Za-z_][A-Za-z0-9_]*\([^)]+\)$
SpecShape(s) ==
    LET open == WordRun(s, 1)
    IN  /\ open > 1
        /\ SubSeq(s, 1, 1) \in Letters \cup {"_"}
        /\ open + 2 <= Len(s)
        /\ SubSeq(s, open, open) = "("
        /\ EndsWith(s, ")")
        /\ NoneIs(SubSeq(s, open + 1, Len(s) - 1), 1, ")")

\* C9: signature parsing rejects every string that does not have the shape
\* name(params), name matching [A-Za-z_][A-Za-z0-9_]* and params a
\* non-empty region without ")": an empty parameter list, a missing closing
\* parenthesis, text after ")" and a name that starts with a digit are all
\* rejected, by EventFilter::new with the invalid-format error.
C9_ShapeRejected ==
    (ctor # "none" /\ ~SpecShape(signature)) =>
        /\ filter.kind = "Err"
        /\ ctor = "new" => filter = Err("Invalid event signature format.")

-----------------------------------------------------------------------------
(* More claims about the type grammar, checked under SpecGrammar.          *)

RECURSIVE SpecRender(_)
RECURSIVE SpecRenderAll(_)

SpecRenderAll(fields) ==
    IF Len(fields) = 0 THEN <<>>
    ELSE <<SpecRender(fields[1])>> \o SpecRenderAll(Tail(fields))

\* the canonical string of a term: explicit widths, T[], (T1,T2,...)
SpecRender(t) ==
    CASE t.tag = "Array" -> SpecRender(t.t) \o "[]"
      [] t.tag = "Struct" -> "(" \o Join(SpecRenderAll(t.fields), ",") \o ")"
      [] OTHER -> name(t)

\* C11: render gives the canonical string of a term: "uint" and "int" parse
\* to width 256 and render as "uint256" and "int256", Array(t) renders as
\* render(t) followed by "[]", and a tuple renders as "(" then its rendered
\* fields joined by "," then ")" with no other character.
C11_CanonicalRender ==
    /\ (term # NoTerm /\ type_str # None) => type_str.s = SpecRender(term)
    /\ (type_str = Some("uint") /\ parsed # NoResult) =>
            parsed = Ok(UInt(256)) /\ name(parsed.v) = "uint256"
    /\ (type_str = Some("int") /\ parsed # NoResult) =>
            parsed = Ok(IntType(256)) /\ name(parsed.v) = "int256"

RECURSIVE ValidTerm(_)
\* widths and sizes are the listed ones at every level of the term
ValidTerm(t) ==
    CASE t.tag \in {"UInt", "Int"} -> t.w \in {8, 16, 32, 64, 128, 256}
      [] t.tag = "FixedBytes" -> t.n \in {2, 4, 8, 16, 32}
      [] t.tag = "Array" -> ValidTerm(t.t)
      [] t.tag = "Struct" -> \A i \in 1..Len(t.fields) : ValidTerm(t.fields[i])
      [] OTHER -> t.tag \in {"Address", "Bool", "String", "Bytes"}

LeafNames ==
    {"address", "bool", "string", "bytes", "uint", "int",
     "uint8", "uint16", "uint32", "uint64", "uint128", "uint256",
     "int8", "int16", "int32", "int64", "int128", "int256",
     "bytes2", "bytes4", "bytes8", "bytes16", "bytes32"}

RECURSIVE Recognised(_)
\* a leaf name, an array of a recognised type, or a tuple whose depth-0
\* components, trimmed, are recognised types
Recognised(s) ==
    \/ s \in LeafNames
    \/ EndsWith(s, "[]") /\ Recognised(SubSeq(s, 1, Len(s) - 2))
    \/ /\ TupleString(s)
       /\ LET pieces == SplitDepth0(SubSeq(s, 2, Len(s) - 1))
          IN  \A i \in 1..Len(pieces) : Recognised(Trim(pieces[i]))

\* C12: every term parse_type returns has, at every nesting level, widths in
\* {8,16,32,64,128,256} and fixed sizes in {2,4,8,16,32}; a string that is
\* not a recognised leaf, an array of a parsable type or a tuple of parsable
\* types ("uint7", "bytes3", "", "[]") is rejected with an error and no term.
C12_TypeInvariants ==
    (type_str # None /\ parsed # NoResult) =>
        /\ parsed.kind = "Ok" => ValidTerm(parsed.v)
        /\ ~Recognised(type_str.s) => parsed = Err("()")
        /\ type_str.s \in {"uint7", "bytes3", "", "[]"} => parsed = Err("()")

\* a string of the caller's, array of tuple, parsed to a term
C12_Witness ==
    /\ type_str = Some("(uint256,bool)[]")
    /\ parsed = Ok(Array(Struct(<<UInt(256), Bool>>)))

-----------------------------------------------------------------------------
(* The driver: main's block callback (main.rs 42-68), the block subscriber *)
(* (block.rs 43-124) and the transaction processor (transaction.rs 35-82). *)
(* The node is the environment: what it streams and what it answers to a   *)
(* request is a choice of the step that asks.                              *)

RECURSIVE decode_loop(_, _, _, _, _, _)
\* for param_type in &self.param_types { ... } of EthereumDecoder::decode
decode_loop(mem, types, bytes, i, off, acc) ==
    IF i > Len(types) THEN Ok(acc)
    ELSE LET res == decode_parameter("decoder", mem, types[i], bytes, off)
         IN  IF res.kind # "Ok" THEN res
             ELSE decode_loop(mem, types, bytes, i + 1, res.new_offset,
                              Append(acc, res.parameter))

\* EthereumDecoder::new(types).decode(&bytes)
decode(mem, types, bytes) == decode_loop(mem, types, bytes, 1, 0, <<>>)

\* slice.contains(&x)
contains(slice, x) == \E i \in 1..Len(slice) : slice[i] = x

\* subscriptions.iter().find(|s| s.contract_address == to): its position,
\* 0 when there is none
find(subs, to) ==
    LET hits == {i \in 1..Len(subs) : subs[i].contract_address = to}
    IN  IF hits = {} THEN 0
        ELSE CHOOSE i \in hits : \A j \in hits : i <= j

EventSubscription(contract_address, events) ==
    [contract_address |-> contract_address, events |-> events]

TransferFilter == EventFilter_deserialize("Transfer(uint256)").v

FlagFilter == EventFilter_deserialize("Flag(bool)").v

\* configurations: one subscription, two on the same contract, two on two
Configurations ==
    {<<EventSubscription("0xA", <<TransferFilter, FlagFilter>>)>>,
     <<EventSubscription("0xA", <<TransferFilter>>),
       EventSubscription("0xA", <<FlagFilter>>)>>,
     <<EventSubscription("0xA", <<TransferFilter>>),
       EventSubscription("0xB", <<FlagFilter>>)>>}

Log(topics, bytes) == [topics |-> topics, data |-> bytes]

\* a Transfer whose data decodes, one whose data is empty, one whose word
\* does not fit a usize
TransferLog == Log(<<TransferFilter.hash>>, Word(1))

ShortTransferLog == Log(<<TransferFilter.hash>>, <<>>)

HugeTransferLog == Log(<<TransferFilter.hash>>, WordHi)

FlagLog == Log(<<FlagFilter.hash>>, Word(1))

\* another event, with an indexed bytes32 argument equal to Transfer's hash
IndexedLog == Log(<<keccak256("Other(bytes32)"), TransferFilter.hash>>, Word(1))

\* an anonymous event: no topics
AnonymousLog == Log(<<>>, Word(1))

\* a transaction and what the node answers when asked for its receipt
Transaction(to, receipt) == [to |-> to, receipt |-> receipt]

Transactions ==
    {Transaction(Some("0xA"), Ok(Some(<<TransferLog>>))),
     Transaction(Some("0xA"), Ok(Some(<<ShortTransferLog, TransferLog>>))),
     Transaction(Some("0xA"), Ok(Some(<<FlagLog, ShortTransferLog>>))),
     Transaction(Some("0xA"), Ok(Some(<<IndexedLog>>))),
     Transaction(Some("0xA"), Ok(Some(<<AnonymousLog, HugeTransferLog>>))),
     Transaction(Some("0xA"), Ok(None)),
     Transaction(Some("0xA"), Err("TransportError")),
     Transaction(Some("0xB"), Ok(Some(<<FlagLog>>))),
     Transaction(Some("0xC"), Ok(Some(<<TransferLog>>))),
     Transaction(None, Ok(Some(<<TransferLog>>)))}

MaxTxs == 2

MaxBlocks == 2

\* block.transactions of the blocks the node can hold
Blocks == UNION {[1..n -> Transactions] : n \in 0..MaxTxs}

notDriver == <<decoderVars, grammarVars, signatureVars, mainVars, cursorVars>>

InitDriver ==
    /\ IdleDecoder
    /\ IdleGrammar
    /\ IdleSignature
    /\ IdleMain
    /\ IdleCursor
    /\ subscriptions \in Configurations
    /\ mode = "none"
    /\ dpc = "start"
    /\ nblocks = 0
    /\ blk = <<>>
    /\ ti = 1
    /\ li = 1
    /\ fi = 1
    /\ calls = <<>>
    /\ errlog = <<>>
    /\ sub_result = NoResult

\* subscribe: provider.subscribe_blocks(), and watch_blocks() when the
\* provider has no pubsub; a failure of watch_blocks is returned by `?`
Subscribe ==
    /\ dpc = "start"
    /\ \/ mode' = "pubsub" /\ dpc' = "stream" /\ UNCHANGED sub_result
       \/ mode' = "poll" /\ dpc' = "stream" /\ UNCHANGED sub_result
       \/ /\ mode' = "poll"
          /\ dpc' = "returned"
          /\ sub_result' = Err("TransportError")
    /\ UNCHANGED <<subscriptions, nblocks, blk, ti, li, fi, calls, errlog>>
    /\ UNCHANGED notDriver

\* a subscriber that takes the next header while the block callback runs
StreamNext_early ==
    /\ dpc \in {"stream", "txs", "logs"}
    /\ nblocks < MaxBlocks
    /\ nblocks' = nblocks + 1
    /\ dpc' = "fetch"
    /\ UNCHANGED <<subscriptions, mode, blk, ti, li, fi, calls, errlog,
                   sub_result>>
    /\ UNCHANGED notDriver

\* while let Some(header) = stream.next().await
StreamNext ==
    /\ dpc = "stream"
    /\ nblocks < MaxBlocks
    /\ nblocks' = nblocks + 1
    /\ dpc' = "fetch"
    /\ UNCHANGED <<subscriptions, mode, blk, ti, li, fi, calls, errlog,
                   sub_result>>
    /\ UNCHANGED notDriver

\* the stream ends: the loop is left and subscribe returns Ok(())
StreamEnd ==
    /\ dpc = "stream"
    /\ dpc' = "returned"
    /\ sub_result' = Ok("()")
    /\ UNCHANGED <<subscriptions, mode, nblocks, blk, ti, li, fi, calls,
                   errlog>>
    /\ UNCHANGED notDriver

\* a subscriber that takes a failed fetch for a missing block and goes on
TransportFailure_skipped ==
    /\ dpc = "fetch"
    /\ dpc' = "stream"
    /\ UNCHANGED <<subscriptions, mode, nblocks, blk, ti, li, fi, calls,
                   errlog, sub_result>>
    /\ UNCHANGED notDriver

\* get_block_by_number / get_block_by_hash fails: `.await?`
TransportFailure ==
    /\ dpc = "fetch"
    /\ dpc' = "returned"
    /\ sub_result' = Err("TransportError")
    /\ UNCHANGED <<subscriptions, mode, nblocks, blk, ti, li, fi, calls,
                   errlog>>
    /\ UNCHANGED notDriver

\* the node has no such block: None => return Err(..)
BlockNotFound ==
    /\ dpc = "fetch"
    /\ dpc' = "returned"
    /\ sub_result' = Err(IF mode = "pubsub" THEN "BlockNotFoundForNumber"
                         ELSE "BlockNotFound")
    /\ UNCHANGED <<subscriptions, mode, nblocks, blk, ti, li, fi, calls,
                   errlog>>
    /\ UNCHANGED notDriver

\* Some(block) => callback_fn(block).await: the callback starts on the
\* block's first transaction
BlockFound ==
    /\ dpc = "fetch"
    /\ \E block \in Blocks : blk' = block
    /\ dpc' = "txs"
    /\ ti' = 1
    /\ li' = 1
    /\ fi' = 1
    /\ calls' = <<>>
    /\ errlog' = <<>>
    /\ UNCHANGED <<subscriptions, mode, nblocks, sub_result>>
    /\ UNCHANGED notDriver

\* the transaction the for loop of process_transaction_logs is at
InBlock == dpc \in {"txs", "logs"} /\ ti <= Len(blk)

\* the position of the subscription `find` gives for it, 0 for none
Found ==
    IF blk[ti].to = None THEN 0 ELSE find(subscriptions, blk[ti].to.s)

\* event_filters and the receipt's logs, while the two inner loops run
event_filters == subscriptions[Found].events

logs == blk[ti].receipt.v.s

ErrorLine(line, err) == [line |-> line, err |-> err]

\* the for loop is over: Ok(()), the block callback completes and the
\* subscriber goes back to its stream
CallbackReturns ==
    /\ dpc = "txs"
    /\ ti > Len(blk)
    /\ dpc' = "stream"
    /\ UNCHANGED <<subscriptions, mode, nblocks, blk, ti, li, fi, calls,
                   errlog, sub_result>>
    /\ UNCHANGED notDriver

\* a transaction with no `to`, or to a contract no subscription names
SkipTransaction ==
    /\ dpc = "txs"
    /\ InBlock
    /\ Found = 0
    /\ ti' = ti + 1
    /\ UNCHANGED <<subscriptions, mode, dpc, nblocks, blk, li, fi, calls,
                   errlog, sub_result>>
    /\ UNCHANGED notDriver

\* get_transaction_receipt(..).await? gives Some(tx_receipt)
ReceiptFound ==
    /\ dpc = "txs"
    /\ InBlock
    /\ Found # 0
    /\ blk[ti].receipt.kind = "Ok" /\ blk[ti].receipt.v # None
    /\ dpc' = "logs"
    /\ li' = 1
    /\ fi' = 1
    /\ UNCHANGED <<subscriptions, mode, nblocks, blk, ti, calls, errlog,
                   sub_result>>
    /\ UNCHANGED notDriver

\* a driver that returns the missing receipt from subscribe
ReceiptNotFound_fatal ==
    /\ dpc = "txs"
    /\ InBlock
    /\ Found # 0
    /\ blk[ti].receipt = Ok(None)
    /\ errlog' = Append(errlog, ErrorLine("Error processing transaction logs",
                                          "ReceiptNotFound"))
    /\ dpc' = "returned"
    /\ sub_result' = Err("ReceiptNotFound")
    /\ UNCHANGED <<subscriptions, mode, nblocks, blk, ti, li, fi, calls>>
    /\ UNCHANGED notDriver

\* get_transaction_receipt(..).await? gives None: process_transaction_logs
\* returns Err(ReceiptNotFound), the block callback logs it and completes
ReceiptNotFound ==
    /\ dpc = "txs"
    /\ InBlock
    /\ Found # 0
    /\ blk[ti].receipt = Ok(None)
    /\ errlog' = Append(errlog, ErrorLine("Error processing transaction logs",
                                          "ReceiptNotFound"))
    /\ dpc' = "stream"
    /\ UNCHANGED <<subscriptions, mode, nblocks, blk, ti, li, fi, calls,
                   sub_result>>
    /\ UNCHANGED notDriver

\* get_transaction_receipt(..).await? fails: the same with TransportError
ReceiptTransportError ==
    /\ dpc = "txs"
    /\ InBlock
    /\ Found # 0
    /\ blk[ti].receipt.kind = "Err"
    /\ errlog' = Append(errlog, ErrorLine("Error processing transaction logs",
                                          blk[ti].receipt.err))
    /\ dpc' = "stream"
    /\ UNCHANGED <<subscriptions, mode, nblocks, blk, ti, li, fi, calls,
                   sub_result>>
    /\ UNCHANGED notDriver

\* for log in tx_receipt.inner.logs() is over: the next transaction
LogsDone ==
    /\ dpc = "logs"
    /\ li > Len(logs)
    /\ ti' = ti + 1
    /\ dpc' = "txs"
    /\ UNCHANGED <<subscriptions, mode, nblocks, blk, li, fi, calls, errlog,
                   sub_result>>
    /\ UNCHANGED notDriver

\* for event_filter in event_filters is over: the next log
NextLog ==
    /\ dpc = "logs"
    /\ li <= Len(logs)
    /\ fi > Len(event_filters)
    /\ li' = li + 1
    /\ fi' = 1
    /\ UNCHANGED <<subscriptions, mode, dpc, nblocks, blk, ti, calls, errlog,
                   sub_result>>
    /\ UNCHANGED notDriver

\* if log.inner.topics().contains(&event_filter.hash)
Matching ==
    /\ dpc = "logs"
    /\ li <= Len(logs)
    /\ fi <= Len(event_filters)
    /\ contains(logs[li].topics, event_filters[fi].hash)

\* the filter's hash is not among the topics: the next filter
NoMatch ==
    /\ dpc = "logs"
    /\ li <= Len(logs)
    /\ fi <= Len(event_filters)
    /\ ~Matching
    /\ fi' = fi + 1
    /\ UNCHANGED <<subscriptions, mode, dpc, nblocks, blk, ti, li, calls,
                   errlog, sub_result>>
    /\ UNCHANGED notDriver

\* a callback whose decode error ends the processing of the block
Dispatch_aborting ==
    /\ Matching
    /\ \E mem \in AllocLimits :
        LET event_filter == event_filters[fi]
            decoded == decode(mem, event_filter.data_types, logs[li].data)
        IN  /\ calls' = Append(calls, [tx |-> ti, log |-> li, sub |-> Found,
                                       filter |-> fi,
                                       event_name |-> event_filter.event_name,
                                       result |-> decoded])
            /\ errlog' = IF decoded.kind = "Err"
                         THEN Append(errlog, ErrorLine("Error decoding event",
                                                       decoded.err))
                         ELSE errlog
            /\ CASE decoded.kind = "Panic" -> dpc' = "crashed" /\ fi' = fi
                 [] decoded.kind = "Err" -> dpc' = "stream" /\ fi' = fi
                 [] OTHER -> dpc' = "logs" /\ fi' = fi + 1
    /\ UNCHANGED <<subscriptions, mode, nblocks, blk, ti, li, sub_result>>
    /\ UNCHANGED notDriver

\* process_event_log(event_filter.clone(), log.clone()).await: main's
\* closure decodes the log's data with the filter's types, writes the
\* values or the error to the log and completes; a panic of decode unwinds
\* through every caller and ends the process
Dispatch ==
    /\ Matching
    /\ \E mem \in AllocLimits :
        LET event_filter == event_filters[fi]
            decoded == decode(mem, event_filter.data_types, logs[li].data)
        IN  /\ calls' = Append(calls, [tx |-> ti, log |-> li, sub |-> Found,
                                       filter |-> fi,
                                       event_name |-> event_filter.event_name,
                                       result |-> decoded])
            /\ errlog' = IF decoded.kind = "Err"
                         THEN Append(errlog, ErrorLine("Error decoding event",
                                                       decoded.err))
                         ELSE errlog
            /\ IF decoded.kind = "Panic"
               THEN dpc' = "crashed" /\ fi' = fi
               ELSE dpc' = "logs" /\ fi' = fi + 1
    /\ UNCHANGED <<subscriptions, mode, nblocks, blk, ti, li, sub_result>>
    /\ UNCHANGED notDriver

NextDriver ==
    \/ Subscribe
    \/ StreamNext
    \/ StreamEnd
    \/ TransportFailure
    \/ BlockNotFound
    \/ BlockFound
    \/ CallbackReturns
    \/ SkipTransaction
    \/ ReceiptFound
    \/ ReceiptNotFound
    \/ ReceiptTransportError
    \/ LogsDone
    \/ NextLog
    \/ NoMatch
    \/ Dispatch

SpecDriver == InitDriver /\ [][NextDriver]_vars

\* the tokio runtime drives the block callback's future to completion
InCallback ==
    \/ CallbackReturns
    \/ SkipTransaction
    \/ ReceiptFound
    \/ ReceiptNotFound
    \/ ReceiptTransportError
    \/ LogsDone
    \/ NextLog
    \/ NoMatch
    \/ Dispatch

SpecDriverFair == SpecDriver /\ WF_vars(InCallback)

-----------------------------------------------------------------------------
(* Claims about the driver, checked under SpecDriver and SpecDriverFair.   *)

\* the log and the filter of an event callback that was made
LogOf(c) == blk[c.tx].receipt.v.s[c.log]

FilterOf(c) == subscriptions[c.sub].events[c.filter]

\* C13: a log is handed to the decode callback with an event descriptor
\* only when the log's first topic, topics[0], equals the descriptor's
\* hash; a log that carries the hash in a later topic only is not
\* dispatched to that descriptor.
C13_FirstTopicOnly ==
    \A k \in 1..Len(calls) :
        /\ Len(LogOf(calls[k]).topics) >= 1
        /\ LogOf(calls[k]).topics[1] = FilterOf(calls[k]).hash

\* the last event callback, made for the log and filter just left, failed
\* to decode
DecodeFailedHere ==
    /\ dpc = "logs"
    /\ calls # <<>>
    /\ LET c == calls[Len(calls)]
       IN  c.result.kind = "Err" /\ c.tx = ti /\ c.log = li /\ c.filter = fi - 1

\* transaction t of the block is to a subscribed contract and has a receipt
Processed(t) ==
    /\ blk[t].to # None
    /\ find(subscriptions, blk[t].to.s) # 0
    /\ blk[t].receipt.kind = "Ok"
    /\ blk[t].receipt.v # None

\* log l of transaction t carries the hash of filter f of its subscription
MatchingAt(t, l, f) ==
    /\ l \in 1..Len(blk[t].receipt.v.s)
    /\ LET events == subscriptions[find(subscriptions, blk[t].to.s)].events
       IN  /\ f \in 1..Len(events)
           /\ contains(blk[t].receipt.v.s[l].topics, events[f].hash)

\* the loops have been past log l and filter f of transaction t
Behind(t, l, f) ==
    \/ t < ti
    \/ /\ t = ti
       /\ dpc \in {"logs", "crashed"}
       /\ l < li \/ (l = li /\ f < fi)

Called(t, l, f) ==
    \E k \in 1..Len(calls) :
        calls[k].tx = t /\ calls[k].log = l /\ calls[k].filter = f

\* the receipts of Transactions hold one or two logs, the subscriptions of
\* Configurations one or two events
LogPositions == 1..2

FilterPositions == 1..2

\* every matching log and filter the loops have been past got its callback
NothingSkipped ==
    \A t \in 1..Len(blk) : \A l \in LogPositions, f \in FilterPositions :
        (Processed(t) /\ MatchingAt(t, l, f) /\ Behind(t, l, f))
            => Called(t, l, f)

\* C14: a decode error affects only the log being decoded.  The driver
\* writes the error to the log and goes on with the next filter as after a
\* decode that succeeded, and subscribe does not return; no matching log
\* that the loops pass, before or after the failure, goes without its
\* callback; after the failure the loop over the receipt's logs comes to
\* its end, and the block callback completes with the subscriber back at
\* its stream for the later blocks.
C14_DecodeErrorIsolated ==
    /\ [][\A mem \in AllocLimits :
            LET decoded == decode(mem, event_filters[fi].data_types,
                                  logs[li].data)
            IN  (Matching /\ decoded.kind = "Err") =>
                    /\ errlog' = Append(errlog,
                                     ErrorLine("Error decoding event", decoded.err))
                    /\ dpc' = "logs"
                    /\ fi' = fi + 1
                    /\ UNCHANGED <<ti, li, blk, nblocks, sub_result>>]_vars
    /\ []NothingSkipped
    /\ DecodeFailedHere ~> (dpc \in {"txs", "crashed"})
    /\ DecodeFailedHere
            ~> ((dpc = "stream" /\ sub_result = NoResult) \/ dpc = "crashed")

\* after a failed decode in one transaction, a callback for a log of a
\* later transaction of the block
C14_Witness ==
    \E k, j \in 1..Len(calls) :
        /\ k < j
        /\ calls[k].result.kind = "Err"
        /\ calls[j].tx > calls[k].tx
        /\ errlog # <<>>

\* C15: a transport error while a block is fetched during an active block
\* subscription is returned from subscribe as TransportError and ends the
\* subscription: from then on no header or hash is taken from the stream
\* and the block callback is not invoked again.
C15_TransportErrorEnds ==
    [][/\ TransportFailure
            => (sub_result' = Err("TransportError") /\ dpc' = "returned")
       /\ sub_result = Err("TransportError")
            => UNCHANGED <<dpc, nblocks, blk, ti, li, fi, calls, sub_result>>]_vars

\* the fetch of the second block fails after the first block had callbacks
C15_Witness ==
    /\ sub_result = Err("TransportError")
    /\ dpc = "returned"
    /\ nblocks = 2
    /\ calls # <<>>

-----------------------------------------------------------------------------
(* Start-up: main (main.rs 14-75), initialize_logger (utils/logger.rs) and *)
(* load_config (configuration.rs), with serde's deserialization of the     *)
(* Configuration (blockchain/configuration.rs 13-178).                     *)

UpperCase == "ABCDEFGHIJKLMNOPQRSTUVWXYZ"

LowerCase == "abcdefghijklmnopqrstuvwxyz"

\* char::to_lowercase on the ASCII characters the inputs use
ToLowerChar(c) ==
    IF \E i \in 1..26 : SubSeq(UpperCase, i, i) = c
    THEN LET i == CHOOSE i \in 1..26 : SubSeq(UpperCase, i, i) = c
         IN  SubSeq(LowerCase, i, i)
    ELSE c

RECURSIVE to_lowercase(_)
to_lowercase(s) ==
    IF Len(s) = 0 THEN ""
    ELSE ToLowerChar(SubSeq(s, 1, 1)) \o to_lowercase(SubSeq(s, 2, Len(s)))

\* env::var(name): Some(value) when the variable is set
env_var(vars_, var_name) ==
    IF var_name \in DOMAIN vars_ THEN vars_[var_name] ELSE None

\* initialize_logger: the level LOG_LEVEL names, "info" when it is unset
initialize_logger(vars_) ==
    LET v == env_var(vars_, "LOG_LEVEL")
        level == IF v = None THEN "info" ELSE v.s
    IN  IF to_lowercase(level) \in {"trace", "debug", "info", "warn", "error"}
        THEN Ok("()")
        ELSE Err([error |-> "InvalidLogLevel", level |-> level])

RECURSIVE RunEnd(_, _, _)
\* the end of the run of characters of s from i that are not in stops
RunEnd(s, i, stops) ==
    IF i <= Len(s) /\ SubSeq(s, i, i) \notin stops
    THEN RunEnd(s, i + 1, stops)
    ELSE i

RECURSIVE substitute_from(_, _, _)
\* re.replace_all with \$\{([^:}]+):?([^}]*)\}: each ${NAME:default} gives
\* the value of NAME, or the default when NAME is not set
substitute_from(vars_, s, i) ==
    IF i > Len(s) THEN ""
    ELSE IF i + 1 <= Len(s) /\ SubSeq(s, i, i + 1) = "${"
    THEN LET name_end == RunEnd(s, i + 2, {":", "}"})
             default_at == IF name_end <= Len(s) /\ SubSeq(s, name_end, name_end) = ":"
                           THEN name_end + 1 ELSE name_end
             close == RunEnd(s, default_at, {"}"})
         IN  IF name_end > i + 2 /\ close <= Len(s)
             THEN LET var_name == SubSeq(s, i + 2, name_end - 1)
                      default_value == SubSeq(s, default_at, close - 1)
                      value == env_var(vars_, var_name)
                  IN  (IF value = None THEN default_value ELSE value.s)
                          \o substitute_from(vars_, s, close + 1)
             ELSE "$" \o substitute_from(vars_, s, i + 1)
    ELSE SubSeq(s, i, i) \o substitute_from(vars_, s, i + 1)

substitute(vars_, s) == substitute_from(vars_, s, 1)

\* a file that is not there, or that read_to_string cannot read
Absent == [kind |-> "absent"]

Unreadable == [kind |-> "unreadable"]

\* a text that is not a YAML mapping of the Configuration's shape
Malformed == [kind |-> "malformed"]

\* a YAML document with the keys of Configuration, its scalars as written
Document(network, subs) ==
    [kind |-> "yaml", network |-> network, subscriptions |-> subs]

\* substitute_env_variables on the text of a document: on each of its scalars
substitute_env_variables(vars_, doc) ==
    IF doc.kind # "yaml" THEN doc
    ELSE Document(
        [protocol |-> substitute(vars_, doc.network.protocol),
         host |-> substitute(vars_, doc.network.host),
         port |-> doc.network.port,
         path |-> substitute(vars_, doc.network.path)],
        [i \in DOMAIN doc.subscriptions |->
            [contract_address |->
                 substitute(vars_, doc.subscriptions[i].contract_address),
             events |-> [j \in DOMAIN doc.subscriptions[i].events |->
                 substitute(vars_, doc.subscriptions[i].events[j])]]])

\* NetworkProtocol's Deserialize: one of the four names, in lower case
NetworkProtocol_deserialize(s) ==
    IF s = "http" THEN Ok("Http")
    ELSE IF s = "https" THEN Ok("Https")
    ELSE IF s = "ws" THEN Ok("Ws")
    ELSE IF s = "ipc" THEN Ok("Ipc")
    ELSE Err("invalid protocol: " \o s)

U16Max == 65535

HexDigits == "0123456789abcdefABCDEF"

IsHex(s) ==
    \A i \in 1..Len(s) : \E k \in 1..Len(HexDigits) :
        SubSeq(s, i, i) = SubSeq(HexDigits, k, k)

\* Address::from_str: forty hexadecimal digits after an optional 0x
Address_from_str(s) ==
    LET digits == IF StartsWith(s, "0x") THEN SubSeq(s, 3, Len(s)) ELSE s
    IN  IF Len(digits) = 40 /\ IsHex(digits)
        THEN Ok(to_lowercase(digits))
        ELSE Err("invalid address")

\* a sequence's visitor: the elements in order, the first error ends it
collect(results) ==
    IF \E i \in DOMAIN results : results[i].kind = "Err"
    THEN results[CHOOSE i \in DOMAIN results :
                     /\ results[i].kind = "Err"
                     /\ \A j \in 1..(i - 1) : results[j].kind # "Err"]
    ELSE Ok([i \in DOMAIN results |-> results[i].v])

deserialize_events_skip(sigs) ==
    collect(SelectSeq([i \in DOMAIN sigs |-> EventFilter_deserialize(sigs[i])],
                      LAMBDA r : r.kind # "Err"))

\* Vec<EventFilter>: each signature through EventFilter's Deserialize
deserialize_events(sigs) ==
    collect([i \in DOMAIN sigs |-> EventFilter_deserialize(sigs[i])])

\* EventSubscription's visitor: both fields, or the error of the first
\* that has one
EventSubscription_visit(address, events) ==
    IF address.kind = "Err" THEN address
    ELSE IF events.kind = "Err" THEN events
    ELSE Ok(EventSubscription(address.v, events.v))

\* EventSubscription's Deserialize: the address, then the events
EventSubscription_deserialize(sub) ==
    EventSubscription_visit(Address_from_str(sub.contract_address),
                            deserialize_events(sub.events))

deserialize_subscriptions(subs) ==
    collect([i \in DOMAIN subs |-> EventSubscription_deserialize(subs[i])])

Configuration_visit(network, protocol, subs) ==
    IF protocol.kind = "Err" THEN protocol
    ELSE IF network.port \notin 0..U16Max THEN Err("invalid value")
    ELSE IF subs.kind = "Err" THEN subs
    ELSE Ok([network |-> [protocol |-> protocol.v,
                          host |-> network.host,
                          port |-> network.port,
                          path |-> network.path],
             subscriptions |-> subs.v])

\* serde_yaml::from_str::<Configuration>
Configuration_deserialize(doc) ==
    IF doc.kind # "yaml" THEN Err("invalid type")
    ELSE Configuration_visit(doc.network,
                             NetworkProtocol_deserialize(doc.network.protocol),
                             deserialize_subscriptions(doc.subscriptions))

FileReadError(filename) == [error |-> "FileReadError", filename |-> filename]

YamlParseError(filename) == [error |-> "YamlParseError", filename |-> filename]

\* Result::map_err
map_err(r, e) == IF r.kind = "Err" THEN Err(e) ELSE r

\* fs::read_to_string: the contents of the file of that name
read_to_string(fs, filename) ==
    IF filename \in DOMAIN fs /\ fs[filename].kind \notin {"absent", "unreadable"}
    THEN Ok(fs[filename])
    ELSE Err("io")

\* the ? after map_err: the error returns, the value goes on
and_then_parse(vars_, contents, filename) ==
    IF contents.kind = "Err" THEN contents
    ELSE map_err(Configuration_deserialize(
                     substitute_env_variables(vars_, contents.v)),
                 YamlParseError(filename))

load_config_by_filename(fs, vars_, filename) ==
    and_then_parse(vars_,
                   map_err(read_to_string(fs, filename), FileReadError(filename)),
                   filename)

config_filename(env) ==
    IF env # None THEN "resources/application-" \o env.s \o ".yml"
    ELSE "resources/application.yml"

config_filename_fallback(fs, env) ==
    IF env # None /\ read_to_string(fs, config_filename(env)).kind = "Ok"
    THEN config_filename(env)
    ELSE "resources/application.yml"

load_config_fallback(fs, vars_, env) ==
    load_config_by_filename(fs, vars_, config_filename_fallback(fs, env))

\* load_config: the file the environment names, application.yml without one
load_config(fs, vars_, env) ==
    load_config_by_filename(fs, vars_, config_filename(env))

\* the documents of the files: the network of the repository's resources,
\* and subscriptions whose scalars are well formed or not
LocalNetwork ==
    [protocol |-> "ws", host |-> "${HOST:localhost}", port |-> 8545, path |-> ""]

ContractAddress == "0xe7f1725E7734CE288F8367e1Bb143E90bb3F0512"

Subscription(sigs) == [contract_address |-> ContractAddress, events |-> sigs]

Documents ==
    {Document(LocalNetwork, <<Subscription(<<"Transfer(uint256)">>),
                              Subscription(<<"Flag( bool )">>)>>),
     Document(LocalNetwork, <<>>),
     Document(LocalNetwork, <<Subscription(<<"Transfer(uint256)", "E(uint7)">>)>>),
     Document(LocalNetwork, <<Subscription(<<"Flag(bool)">>),
                              Subscription(<<"E()">>)>>),
     Document(LocalNetwork, <<Subscription(<<"1E(uint256)">>)>>),
     Document(LocalNetwork, <<[contract_address |-> "0x1234",
                               events |-> <<"Flag(bool)">>]>>),
     Document([LocalNetwork EXCEPT !.protocol = "ftp"], <<>>),
     Document([LocalNetwork EXCEPT !.port = 70000], <<>>),
     Malformed}

FileNames == {"resources/application.yml", "resources/application-test.yml"}

FileSystems == [FileNames -> Documents \cup {Absent, Unreadable}]

Environments ==
    [{"LOG_LEVEL"} -> {None, Some("info"), Some("DEBUG"), Some("verbose")}]
        \cup [{"LOG_LEVEL", "HOST"} -> {Some("warn"), Some("node")}]

notMain ==
    IdleDecoder /\ IdleGrammar /\ IdleSignature /\ IdleDriver /\ IdleCursor

\* main starts with the process's environment and files; load_config is
\* also called on its own with an environment name (tests/test_config.rs)
InitMain ==
    /\ notMain
    /\ environ \in Environments
    /\ files \in FileSystems
    /\ \/ mpc = "main" /\ env_name = None
       \/ mpc = "call" /\ env_name \in {None, Some("test"), Some("invalid")}
    /\ logger = NoResult
    /\ config = NoResult
    /\ exit_code = -1

mainRest == <<decoderVars, grammarVars, signatureVars, driverVars, cursorVars>>

\* main returns: the process ends with the status of a main that returned
Return ==
    /\ mpc' = "exited"
    /\ exit_code' = 0

\* main.rs 16-19: initialize_logger, and return when it failed
InitializeLogger ==
    /\ mpc = "main"
    /\ logger' = initialize_logger(environ)
    /\ IF logger'.kind = "Err" THEN Return
       ELSE mpc' = "load" /\ UNCHANGED exit_code
    /\ UNCHANGED <<environ, env_name, files, config>>
    /\ UNCHANGED mainRest

\* main.rs 21-27: load_config(None), and return when it failed
LoadConfig ==
    /\ mpc = "load"
    /\ config' = load_config(files, environ, None)
    /\ IF config'.kind = "Err" THEN Return
       ELSE mpc' = "connect" /\ UNCHANGED exit_code
    /\ UNCHANGED <<environ, env_name, files, logger>>
    /\ UNCHANGED mainRest

\* main.rs 33, 71-73: build_connection, and return when the node refused
BuildConnection ==
    /\ mpc = "connect"
    /\ \E connected \in BOOLEAN :
        IF connected THEN mpc' = "run" /\ UNCHANGED exit_code ELSE Return
    /\ UNCHANGED <<environ, env_name, files, logger, config>>
    /\ UNCHANGED mainRest

\* main.rs 42-68: subscribe returns with or without an error, and main
\* returns; or a callback panicked and the process ends with the status
\* of a panic
Subscribed ==
    /\ mpc = "run"
    /\ \E panicked \in BOOLEAN :
        IF panicked THEN mpc' = "exited" /\ exit_code' = 101 ELSE Return
    /\ UNCHANGED <<environ, env_name, files, logger, config>>
    /\ UNCHANGED mainRest

\* a call of load_config with an environment name
LoadConfigCall ==
    /\ mpc = "call"
    /\ config' = load_config(files, environ, env_name)
    /\ mpc' = "called"
    /\ UNCHANGED <<environ, env_name, files, logger, exit_code>>
    /\ UNCHANGED mainRest

NextMain ==
    \/ InitializeLogger
    \/ LoadConfig
    \/ BuildConnection
    \/ Subscribed
    \/ LoadConfigCall

SpecMain == InitMain /\ [][NextMain]_vars

-----------------------------------------------------------------------------
(* Claims about start-up.                                                  *)

\* the file load_config was asked for, as the file system holds it
SelectedName == config_filename(env_name)

SelectedFile == IF SelectedName \in DOMAIN files THEN files[SelectedName] ELSE Absent

Loaded == config # NoResult

\* the signatures of a document that signature parsing rejects
InvalidSignatures(doc) ==
    {sig \in UNION {{sub.events[j] : j \in DOMAIN sub.events} :
                        sub \in {doc.subscriptions[i] : i \in DOMAIN doc.subscriptions}} :
        EventFilter_deserialize(substitute(environ, sig)).kind = "Err"}

FiltersOf(configuration) ==
    UNION {{sub.events[j] : j \in DOMAIN sub.events} :
              sub \in {configuration.subscriptions[i] :
                          i \in DOMAIN configuration.subscriptions}}

C17_FailureExitsNonZero ==
    (mpc = "exited" /\ (logger.kind = "Err" \/ config.kind = "Err"))
        => exit_code # 0

\* C18: load_config returns what the one file application.yml, or
\* application-<env>.yml for Some(env), gives, whatever other files there
\* are: FileReadError with that name when it cannot be read, YamlParseError
\* with that name when it is read and does not deserialize, its
\* Configuration otherwise.
C18_SelectedFileOnly ==
    Loaded =>
        LET filename == IF env_name = None THEN "resources/application.yml"
                        ELSE "resources/application-" \o env_name.s \o ".yml"
            file == IF filename \in DOMAIN files THEN files[filename] ELSE Absent
            parsed_ == Configuration_deserialize(
                           substitute_env_variables(environ, file))
        IN  IF file.kind \in {"absent", "unreadable"}
            THEN config = Err(FileReadError(filename))
            ELSE IF parsed_.kind = "Err"
            THEN config = Err(YamlParseError(filename))
            ELSE config = parsed_

\* load_config(Some("test")) failed on a missing application-test.yml
\* although application.yml is there and loads
C18_Witness ==
    /\ mpc = "called"
    /\ env_name = Some("test")
    /\ files["resources/application-test.yml"] = Absent
    /\ load_config(files, environ, None).kind = "Ok"
    /\ config = Err(FileReadError("resources/application-test.yml"))

-----------------------------------------------------------------------------
(* Claims about the integers of the decoder.  A host integer is its eight  *)
(* bytes, big-endian: an unsigned value v is the bytes of v, a signed      *)
(* value s those of its two's complement, s + 2^64 when s is negative.     *)

\* v mod 2^64 for the unsigned value v of a word: its last eight bytes
ModHostWord(word) == SubSeq(word, 32 - UsizeBytes + 1, 32)

\* the host integer of a small value, -2^15 <= s < 2^15
HostInt(s) ==
    LET fill == IF s < 0 THEN 255 ELSE 0
        low == IF s < 0 THEN s + Limb ELSE s
    IN  [i \in 1..(UsizeBytes - 2) |-> fill] \o <<low \div 256, low % 256>>

\* the two's-complement value of a word is an isize: every bit above the
\* low 63 repeats the sign bit
FitsIsize(word) ==
    \E fill \in {0, 255} :
        /\ \A i \in 1..(32 - UsizeBytes) : word[i] = fill
        /\ (word[32 - UsizeBytes + 1] >= 128) <=> (fill = 255)

\* C19: decoding a UInt(w) parameter whose head word is inside the buffer
\* succeeds for every word and every w, with the value Uint(v mod 2^64)
\* for the unsigned value v of the word: no word makes it fail.
C19_UIntTruncates ==
    [][(pc = "loop" /\ AtParam({"UInt"}) /\ HeadInBounds)
          => /\ result' = NoResult
             /\ parameters' =
                    Append(parameters, Parameter("Uint", ModHostWord(WordAt(offset))))]_vars

\* C20: decoding an Int(w) parameter whose head word is inside the buffer
\* and holds, as a 256-bit two's-complement number, a value s of the isize
\* range gives Int(s), whatever w is.
C20_IntTwosComplement ==
    [][(pc = "loop" /\ AtParam({"Int"}) /\ HeadInBounds /\ FitsIsize(WordAt(offset)))
          => /\ result' = NoResult
             /\ parameters' =
                    Append(parameters, Parameter("Int", ModHostWord(WordAt(offset))))]_vars

\* a decode of (string, int64) has returned Int(-42) for the word ff..ffd6
C20_Witness ==
    /\ result.kind = "Ok"
    /\ param_types = <<String, IntType(64)>>
    /\ WordAt(32) = WordNeg42
    /\ result.v[2] = Parameter("Int", HostInt(-42))

-----------------------------------------------------------------------------
(* Claims about the values of the decoder.                                 *)

\* C21: a Bytes parameter whose head word names an offset o and whose
\* word at o names a length L, with o + 32 + L inside the buffer, decodes
\* to the L bytes data[o+32 .. o+32+L] and nothing else; a String
\* parameter does too when those bytes are valid UTF-8.
C21_ExactPayload ==
    [][(/\ pc = "loop"
        /\ AtParam({"String", "Bytes"})
        /\ NamesLength
        /\ ~PayloadExceeds
        /\ AtParam({"String"}) => Utf8ValidFrom(Payload, 1))
          => /\ result' = NoResult
             /\ parameters' =
                    Append(parameters, Parameter(param_types[idx].tag, Payload))]_vars

\* a decode of (bytes) has returned the one byte 0x48 of a payload word
\* that goes on with 0x69 and padding
C21_Witness ==
    /\ param_types = <<Bytes>>
    /\ data = Word(32) \o Word(1) \o WordHi
    /\ result.kind = "Ok"
    /\ result.v = <<Parameter("Bytes", <<72>>)>>

\* longer buffers of fewer words, for arrays with several elements
MaxArrayWords == 5

ArrayPalette == {Word(1), Word(2), Word(3), Word(32), WordHi}

ArrayBuffers ==
    {Flatten(ws) : ws \in UNION {[1..n -> ArrayPalette] : n \in 0..MaxArrayWords}}

ArrayLists == {<<Array(UInt(256))>>, <<Array(Bool)>>, <<Array(String)>>}

InitArrays ==
    /\ IdleDriver
    /\ IdleMain
    /\ IdleCursor
    /\ entry \in Entries
    /\ param_types \in ArrayLists
    /\ data \in ArrayBuffers
    /\ pc = "loop"
    /\ idx = 1
    /\ offset = 0
    /\ parameters = <<>>
    /\ result = NoResult
    /\ IdleGrammar
    /\ IdleSignature

SpecArrays == InitArrays /\ [][Next]_vars

\* the tail slice data[o+32..] starts here, 0-based
TailStart == UNat(NamedOffset) + 32

\* the word at position pos of the tail slice
TailWord(pos) == WordAt(TailStart + pos)

\* a word is at position pos of the tail slice
TailHolds(pos) == TailStart + pos + 32 <= Len(data)

\* p is element i (0-based) of an array of t, read off the buffer: for a
\* one-word static t the word at o + 32 + 32 * i, for a string the bytes
\* its head slot names, as an offset into the tail slice
ElementIs(t, i, p) ==
    /\ TailHolds(32 * i)
    /\ CASE t.tag = "UInt" -> p = Parameter("Uint", ModHostWord(TailWord(32 * i)))
         [] t.tag = "Bool" -> p = Parameter("Bool", TailWord(32 * i)[32] = 1)
         [] t.tag = "String" ->
               LET at == UNat(Low4(TailWord(32 * i)))
               IN  /\ TailHolds(at)
                   /\ LET len == UNat(Low4(TailWord(at)))
                      IN  p = Parameter("String",
                                  SubSeq(data, TailStart + at + 33,
                                         TailStart + at + 32 + len))

\* C22: when decoding an Array(t) parameter with head offset o and length
\* n goes on to the next parameter, its value is an Array of exactly n
\* values, the i-th read by a cursor that starts at 0 over data[o+32..]:
\* the word at o + 32 + 32 * i for a one-word t, and for a string the
\* payload its head slot names relative to that tail slice.
C22_ArrayInnerCursor ==
    [][(pc = "loop" /\ AtParam({"Array"}) /\ NamesLength /\ result' = NoResult)
          => LET value == parameters'[idx]
                 n == UNat(NamedLength)
             IN  /\ value.tag = "Array"
                 /\ Len(value.v) = n
                 /\ \A i \in 0..(n - 1) :
                        ElementIs(param_types[idx].t, i, value.v[i + 1])]_vars

\* the array of decoder.rs test_decode_array: three elements in order
C22_Witness ==
    /\ param_types = <<Array(UInt(256))>>
    /\ data = Word(32) \o Word(3) \o Word(1) \o Word(2) \o Word(3)
    /\ result.kind = "Ok"
    /\ result.v = <<Parameter("Array", <<Parameter("Uint", HostInt(1)),
                                         Parameter("Uint", HostInt(2)),
                                         Parameter("Uint", HostInt(3))>>)>>

\* the value of a one-word static term read off the word at position pos
StaticIs(t, pos, p) ==
    /\ pos + 32 <= Len(data)
    /\ CASE t.tag = "UInt" -> p = Parameter("Uint", ModHostWord(WordAt(pos)))
         [] t.tag = "Bool" -> p = Parameter("Bool", WordAt(pos)[32] = 1)

\* C23: when decoding a tuple parameter of k one-word fields goes on to
\* the next parameter, its value is a Struct of exactly k values, the i-th
\* read where the one before it ended (32 bytes further on), and the
\* cursor has moved past all k of them.
C23_TupleInline ==
    [][(/\ pc = "loop"
        /\ AtParam({"Struct"})
        /\ \A i \in DOMAIN param_types[idx].fields :
               param_types[idx].fields[i].tag \in {"UInt", "Bool"}
        /\ result' = NoResult)
          => LET value == parameters'[idx]
                 fields == param_types[idx].fields
             IN  /\ value.tag = "Struct"
                 /\ Len(value.v) = Len(fields)
                 /\ \A i \in DOMAIN fields :
                        StaticIs(fields[i], offset + 32 * (i - 1), value.v[i])
                 /\ offset' = offset + 32 * Len(fields)]_vars

\* a decode of ((uint256,bool)) over the words 0x20, 0x01 has returned
\* [Uint(32), Bool(true)] with the cursor at 64
C23_Witness ==
    /\ param_types = <<Struct(<<UInt(256), Bool>>)>>
    /\ data = Word(32) \o Word(1)
    /\ result.kind = "Ok"
    /\ result.v = <<Parameter("Struct", <<Parameter("Uint", HostInt(32)),
                                          Parameter("Bool", TRUE)>>)>>
    /\ offset = 64

\* short buffers of more varied words, for the one-word static types
MaxStaticWords == 2

\* 0x01 as the first and the last byte
WordOneOne == <<1>> \o Zeros(30) \o <<1>>

\* ff..ff01
WordOnesOne == [i \in 1..32 |-> IF i = 32 THEN 1 ELSE 255]

\* 0x0100: the byte before the last is 0x01
WordTwoFiveSix == Zeros(30) \o <<1, 0>>

StaticPalette ==
    {Word(0), Word(1), Word(2), Word(255), WordNeg42, WordHi,
     WordOneOne, WordOnesOne, WordTwoFiveSix}

StaticBuffers ==
    {Flatten(ws) : ws \in UNION {[1..n -> StaticPalette] : n \in 0..MaxStaticWords}}

StaticLists == {<<Bool>>, <<Bool, Bool>>, <<Address, Bool>>, <<FixedBytes(4)>>}

InitStatic ==
    /\ IdleDriver
    /\ IdleMain
    /\ IdleCursor
    /\ entry \in Entries
    /\ param_types \in StaticLists
    /\ data \in StaticBuffers
    /\ pc = "loop"
    /\ idx = 1
    /\ offset = 0
    /\ parameters = <<>>
    /\ result = NoResult
    /\ IdleGrammar
    /\ IdleSignature

SpecStatic == InitStatic /\ [][Next]_vars

\* C24: decoding a Bool parameter whose head word is inside the buffer
\* always succeeds, with Bool(true) when the last byte of the word is 0x01
\* and Bool(false) for every other last byte, whatever the first 31 bytes.
C24_BoolLastByte ==
    [][(pc = "loop" /\ AtParam({"Bool"}) /\ HeadInBounds)
          => /\ result' = NoResult
             /\ parameters' =
                    Append(parameters, Parameter("Bool", WordAt(offset)[32] = 1))]_vars

\* a decode of (bool, bool) has returned true for ff..ff01 and false for
\* ff..ffd6
C24_Witness ==
    /\ param_types = <<Bool, Bool>>
    /\ data = WordOnesOne \o WordNeg42
    /\ result.kind = "Ok"
    /\ result.v = <<Parameter("Bool", TRUE), Parameter("Bool", FALSE)>>

\* C25: in a top-level decode the head cursor is 0 at the first parameter
\* and 32 further on after each parameter, whatever its type: parameter
\* number idx (from 1) is read at byte 32 * (idx - 1).
C25_HeadSlotPerParameter == pc = "loop" => offset = 32 * (idx - 1)

-----------------------------------------------------------------------------
(* The cursor primitives on a host of host_bits bits.  The crate builds    *)
(* for 32-bit and 64-bit targets; `+` on usize panics on overflow when the *)
(* build has overflow checks (the dev profile) and wraps when it has not   *)
(* (the release profile).  A usize of 32 bits is the two limbs hi, lo with *)
(* hi < 2^16.  The steps are those of decode_string and decode_bytes       *)
(* (decoder.rs 105-125) for the one parameter of a decode.                 *)

\* a + b on usize
usize_add(bits, checks, a, b) ==
    IF bits = 32 /\ UAdd(a, b).hi >= Limb
    THEN IF checks THEN Panic("attempt to add with overflow")
         ELSE Ok([hi |-> UAdd(a, b).hi % Limb, lo |-> UAdd(a, b).lo])
    ELSE Ok(UAdd(a, b))

\* &data[from..to]
slice_range(bytes, from, to) ==
    IF UGt(from, to) THEN Panic("slice index starts after its end")
    ELSE IF UGt(to, U(Len(bytes))) THEN Panic("range end index out of range")
    ELSE Ok(SubSeq(bytes, UNat(from) + 1, UNat(to)))

\* the test and the slice of peek and of take_bytes, given offset + len
bounded_slice(bytes, off, end) ==
    IF end.kind # "Ok" THEN end
    ELSE IF UGt(end.v, U(Len(bytes))) THEN Err("OutOfBounds")
    ELSE slice_range(bytes, off, end.v)

\* fn peek(data, offset, len) on that host
peek_on(bits, checks, bytes, off, length) ==
    bounded_slice(bytes, off, usize_add(bits, checks, off, length))

\* fn take_bytes(data, offset, len) on that host
take_bytes_on(bits, checks, bytes, off, length) ==
    bounded_slice(bytes, off, usize_add(bits, checks, off, length))

\* as_usize(&peek_32_bytes(data, off)?)?
word_as_usize(word) == IF word.kind # "Ok" THEN word ELSE as_usize(word.v)

MaxCursorWords == 2

\* 2^32 - 32: with 32 more it is 2^32
WordNearMax == Zeros(28) \o <<255, 255, 255, 224>>

CursorPalette == {Word(0), Word(32), WordMaxU32, WordNearMax, WordHi}

CursorBuffers ==
    {Flatten(ws) : ws \in UNION {[1..n -> CursorPalette] : n \in 0..MaxCursorWords}}

HostWords == {32, 64}

InitCursor ==
    /\ IdleGrammar
    /\ IdleSignature
    /\ IdleDriver
    /\ IdleMain
    /\ host_bits \in HostWords
    /\ overflow_checks \in BOOLEAN
    /\ entry = "decoder"
    /\ param_types \in {<<String>>, <<Bytes>>}
    /\ data \in CursorBuffers
    /\ pc = "head"
    /\ idx = 1
    /\ offset = 0
    /\ parameters = <<>>
    /\ result = NoResult
    /\ cur_offset = U(0)
    /\ cur_len = U(0)

cursorRest ==
    <<entry, param_types, data, idx, offset, host_bits, overflow_checks,
      grammarVars, signatureVars, driverVars, mainVars>>

\* the ? operator on an error, or a panic: decode ends with it
Fails(r) ==
    /\ result' = r
    /\ pc' = "done"
    /\ UNCHANGED <<parameters, cur_offset, cur_len>>

\* let dynamic_offset = as_usize(&peek_32_bytes(data, offset)?)?;
ReadOffset ==
    /\ pc = "head"
    /\ LET read == word_as_usize(
                       peek_on(host_bits, overflow_checks, data, U(offset), U(32)))
       IN  IF read.kind # "Ok" THEN Fails(read)
           ELSE /\ cur_offset' = read.v
                /\ pc' = "length"
                /\ UNCHANGED <<parameters, result, cur_len>>
    /\ UNCHANGED cursorRest

\* let len = as_usize(&peek_32_bytes(data, dynamic_offset)?)?;
ReadLength ==
    /\ pc = "length"
    /\ LET read == word_as_usize(
                       peek_on(host_bits, overflow_checks, data, cur_offset, U(32)))
       IN  IF read.kind # "Ok" THEN Fails(read)
           ELSE /\ cur_len' = read.v
                /\ pc' = "payload"
                /\ UNCHANGED <<parameters, result, cur_offset>>
    /\ UNCHANGED cursorRest

\* take_bytes(data, start, len) when dynamic_offset + 32 gave start
take_from(start) ==
    IF start.kind # "Ok" THEN start
    ELSE take_bytes_on(host_bits, overflow_checks, data, start.v, cur_len)

\* the value of the parameter from its bytes, and decode's Ok(parameters)
Returns(taken) ==
    IF param_types[1].tag = "String" /\ from_utf8(taken).kind # "Ok"
    THEN Fails(from_utf8(taken))
    ELSE /\ parameters' = <<Parameter(param_types[1].tag, taken)>>
         /\ result' = Ok(parameters')
         /\ pc' = "done"
         /\ UNCHANGED <<cur_offset, cur_len>>

\* let bytes = take_bytes(data, dynamic_offset + 32, len)?; and the rest
TakePayload ==
    /\ pc = "payload"
    /\ LET taken == take_from(usize_add(host_bits, overflow_checks,
                                        cur_offset, U(32)))
       IN  IF taken.kind # "Ok" THEN Fails(taken) ELSE Returns(taken.v)
    /\ UNCHANGED cursorRest

NextCursor == ReadOffset \/ ReadLength \/ TakePayload

SpecCursor == InitCursor /\ [][NextCursor]_vars

\* a + b does not fit the host word
Overflows(a, b) == host_bits = 32 /\ UAdd(a, b).hi >= Limb

\* C26: whenever a step of the decode computes a sum of an offset and a
\* length that does not fit the host word, the decode ends there with a
\* DecodeError.
C26_CheckedSums ==
    [][(\/ pc = "length" /\ Overflows(cur_offset, U(32))
        \/ pc = "payload" /\ Overflows(UAdd(cur_offset, U(32)), cur_len))
          => (pc' = "done" /\ result'.kind = "Err")]_vars

-----------------------------------------------------------------------------
(* More claims about the driver and about event signatures.                *)

\* C27: once the loop of process_transaction_logs has been past a
\* transaction to address A that has a receipt, every event of every
\* subscription whose contract_address is A has had its callback for
\* every log of the receipt that carries its hash, also when that
\* subscription is not the first one with that address.
C27_EverySubscriptionOfAddress ==
    \A t \in 1..Len(blk) :
        (t < ti /\ blk[t].to # None /\ blk[t].receipt.kind = "Ok"
                /\ blk[t].receipt.v # None)
            => \A s \in 1..Len(subscriptions) :
                   subscriptions[s].contract_address = blk[t].to.s
                       => \A f \in 1..Len(subscriptions[s].events),
                             l \in 1..Len(blk[t].receipt.v.s) :
                              contains(blk[t].receipt.v.s[l].topics,
                                       subscriptions[s].events[f].hash)
                                  => \E k \in 1..Len(calls) :
                                         /\ calls[k].tx = t
                                         /\ calls[k].log = l
                                         /\ calls[k].sub = s
                                         /\ calls[k].filter = f

RECURSIVE HasStruct(_)
\* a term is a tuple or holds one
HasStruct(t) ==
    CASE t.tag = "Struct" -> TRUE
      [] t.tag = "Array" -> HasStruct(t.t)
      [] OTHER -> FALSE

\* signatures of the shape name(params) with a tuple among the parameters
TupleSignatures ==
    {n \o "(" \o p \o ")" :
        n \in {"E", "Transfer", "_e", "e_1"},
        p \in {"(uint256,bool)", "(uint256)", "(uint256,bool)[]",
               "bool,(uint256)[]"}}

\* C28: no event descriptor built from a signature string, by
\* EventFilter::new or by deserialization, has a tuple among its terms at
\* any depth, and every signature with a tuple-typed parameter, such as
\* E((uint256,bool)) or E((uint256,bool)[]), is rejected by both.
C28_NoTupleFromSignature ==
    /\ Built => \A i \in DOMAIN filter.v.data_types :
                    ~HasStruct(filter.v.data_types[i])
    /\ (ctor # "none" /\ signature \in TupleSignatures) => filter.kind = "Err"

\* deserialization has rejected E((uint256,bool)[])
C28_Witness ==
    /\ ctor = "deserialize"
    /\ signature = "E((uint256,bool)[])"
    /\ filter.kind = "Err"

\* the block callback of the block last fetched has completed: its loop
\* has been past every transaction, or process_transaction_logs returned
\* an error, which the callback wrote to the log
CallbackCompleted ==
    \/ ti > Len(blk)
    \/ /\ errlog # <<>>
       /\ errlog[Len(errlog)].line = "Error processing transaction logs"

\* event callback a comes before b in transaction, log, filter order
Before(a, b) ==
    \/ a.tx < b.tx
    \/ a.tx = b.tx /\ a.log < b.log
    \/ a.tx = b.tx /\ a.log = b.log /\ a.filter < b.filter

\* C29: a header or block hash is taken from the stream only when the
\* block callback of the block before has completed, and the event
\* callbacks of a block are made one after the other, each with its
\* outcome before the next, in the order of the transactions, then of the
\* logs of the receipt, then of the events of the subscription.
C29_SequentialInOrder ==
    /\ [][nblocks' # nblocks => CallbackCompleted]_vars
    /\ [](\A k \in 1..Len(calls) :
              /\ calls[k].result # NoResult
              /\ k > 1 => Before(calls[k - 1], calls[k]))

\* in the second block, callbacks for two logs of the first transaction
\* and then one for the second transaction
C29_Witness ==
    /\ nblocks = 2
    /\ Len(calls) = 3
    /\ calls[1].tx = 1 /\ calls[2].tx = 1 /\ calls[3].tx = 2
    /\ calls[1].log < calls[2].log

\* the loop is at a transaction to a subscribed contract whose receipt the
\* node does not have
ReceiptMissingHere ==
    /\ dpc = "txs"
    /\ ti <= Len(blk)
    /\ blk[ti].to # None
    /\ \E s \in 1..Len(subscriptions) :
           subscriptions[s].contract_address = blk[ti].to.s
    /\ blk[ti].receipt = Ok(None)

\* the block callback ended on a missing receipt
EndedOnMissingReceipt ==
    /\ errlog # <<>>
    /\ errlog[Len(errlog)] =
           ErrorLine("Error processing transaction logs", "ReceiptNotFound")

\* C30: when the receipt of a transaction to a subscribed contract is not
\* found, process_transaction_logs returns ReceiptNotFound at once: the
\* error is written to the log, the callbacks made so far stay as they
\* are, the block callback completes and the subscriber is back at its
\* stream with subscribe not returned; and no event callback is ever made
\* for that transaction or a later one of the block.
C30_ReceiptNotFoundEndsBlock ==
    /\ [][ReceiptMissingHere
            => /\ errlog' = Append(errlog,
                                ErrorLine("Error processing transaction logs",
                                          "ReceiptNotFound"))
               /\ calls' = calls
               /\ dpc' = "stream"
               /\ sub_result' = NoResult
               /\ UNCHANGED <<blk, ti, nblocks>>]_vars
    /\ [](EndedOnMissingReceipt
            => /\ \A k \in 1..Len(calls) : calls[k].tx < ti
               /\ (dpc = "stream" /\ nblocks < MaxBlocks) => ENABLED StreamNext)

\* after callbacks for the first transaction of the first block, the
\* receipt of its second transaction was missing, and the subscriber has
\* taken the next header from the stream
C30_Witness ==
    /\ EndedOnMissingReceipt
    /\ calls # <<>>
    /\ ti = 2
    /\ nblocks = 2
    /\ dpc = "fetch"
    /\ sub_result = NoResult

====
